---- MODULE Spec2Model ----
(***************************************************************************)
(* Frame-resource ring and CPU/GPU fence synchronisation of the two        *)
(* Direct3D 12 demo applications of this repository:                       *)
(*   castle : src/Assignment1/Castle_Woonhak_Kong.cpp  (TexWavesApp)       *)
(*   shapes : src/unnamed/part_000                     (ShapesApp)         *)
(* The CPU frame loop (Update, Draw) and the GPU command queue are two     *)
(* processes.  Numbers with a fraction in the source are kept in fixed     *)
(* point, unit 1/100 (1.0f is 100).                                        *)
(***************************************************************************)
EXTENDS Integers, Sequences, FiniteSets, TLC

\* ------------------------------------------------------------ constants

\* const int gNumFrameResources = 3;
gNumFrameResources == 3

\* 1.0f in fixed point.
One == 100

\* tu += 0.1f * dt and tv += 0.02f * dt, in fixed point per unit of dt.
TuRate == 10
TvRate == 2

\* sizeof(XMFLOAT4X4), sizeof(XMFLOAT4), sizeof(XMFLOAT3), sizeof(float).
SizeofFloat4x4 == 64
SizeofFloat4 == 16
SizeofFloat3 == 12
SizeofFloat == 4

\* -------------------------------------------------------------- bounds

\* Calls of AnimateMaterials a client makes between two frame updates.
MaxMarks == 2
\* Frames the loop runs before the model stops it.
MaxFrames == 7
\* Render items of each scene that are modelled (a prefix of the list
\* BuildRenderItems builds).
NumRitems == 4
\* Largest value the fence counter may hold when Initialize returns.
MaxInitFence == 1
\* Vertices of the wave grid that are modelled.
WaveVertexCount == 2

Apps == {"castle", "shapes"}

\* gt.DeltaTime() of a frame, in seconds.
DeltaTimes == {0, 3}

\* ------------------------------------------------------------- matrices

Identity4x4 ==
    << <<One, 0, 0, 0>>, <<0, One, 0, 0>>, <<0, 0, One, 0>>, <<0, 0, 0, One>> >>

XMMatrixScaling(sx, sy, sz) ==
    << <<sx, 0, 0, 0>>, <<0, sy, 0, 0>>, <<0, 0, sz, 0>>, <<0, 0, 0, One>> >>

XMMatrixTranspose(M) ==
    [r \in 1..4 |-> [c \in 1..4 |-> M[c][r]]]

\* M(row, col) of an XMFLOAT4X4, rows and columns counted from 0.
MatAt(M, row, col) == M[row + 1][col + 1]

MatSet(M, row, col, v) == [M EXCEPT ![row + 1][col + 1] = v]

\* ---------------------------------------------------------------- scene

\* DrawArgs of the submeshes: (IndexCount, StartIndexLocation,
\* BaseVertexLocation) as the geometry generator's sizes give them.
DrawArgs ==
    [ grid      |-> [IndexCount |-> 24, StartIndexLocation |-> 0,  BaseVertexLocation |-> 0],
      ground    |-> [IndexCount |-> 6,  StartIndexLocation |-> 36, BaseVertexLocation |-> 24],
      wholeWall |-> [IndexCount |-> 36, StartIndexLocation |-> 0,  BaseVertexLocation |-> 0] ]

RenderItem(world, tex, cbindex, mat, geo, args) ==
    [ World              |-> world,
      TexTransform       |-> tex,
      NumFramesDirty     |-> gNumFrameResources,
      ObjCBIndex         |-> cbindex,
      Mat                |-> mat,
      Geo                |-> geo,
      IndexCount         |-> args.IndexCount,
      StartIndexLocation |-> args.StartIndexLocation,
      BaseVertexLocation |-> args.BaseVertexLocation ]

BackWallWorld ==
    << <<1800, 0, 0, 0>>, <<0, 800, 0, 0>>, <<0, 0, 50, 0>>, <<0, 400, 900, One>> >>

LeftWallWorld ==
    << <<0, 0, -1800, 0>>, <<0, 800, 0, 0>>, <<50, 0, 0, 0>>, <<-900, 400, 0, One>> >>

RightWallWorld ==
    << <<0, 0, -1800, 0>>, <<0, 800, 0, 0>>, <<50, 0, 0, 0>>, <<900, 400, 0, One>> >>

FrontWall1World ==
    << <<600, 0, 0, 0>>, <<0, 500, 0, 0>>, <<0, 0, 50, 0>>, <<-500, 250, -900, One>> >>

FrontWall2World ==
    << <<600, 0, 0, 0>>, <<0, 500, 0, 0>>, <<0, 0, 50, 0>>, <<500, 250, -900, One>> >>

\* TexWavesApp::BuildRenderItems: the items in creation order, cbindex++.
CastleRitems ==
    << RenderItem(Identity4x4, XMMatrixScaling(500, 500, One), 0, "water", "waterGeo", DrawArgs.grid),
       RenderItem(Identity4x4, Identity4x4, 1, "wirefence", "shapeGeo", DrawArgs.ground),
       RenderItem(BackWallWorld, XMMatrixScaling(400, 160, One), 2, "stone", "shapeGeo", DrawArgs.wholeWall),
       RenderItem(LeftWallWorld, XMMatrixScaling(400, 160, One), 3, "stone", "shapeGeo", DrawArgs.wholeWall),
       RenderItem(RightWallWorld, XMMatrixScaling(400, 160, One), 4, "stone", "shapeGeo", DrawArgs.wholeWall),
       RenderItem(FrontWall1World, XMMatrixScaling(133, 111, One), 5, "stone", "shapeGeo", DrawArgs.wholeWall) >>

\* ShapesApp::BuildRenderItems: these items have no material and no
\* texture transform.
ShapesRitems ==
    << RenderItem(Identity4x4, Identity4x4, 0, "none", "shapeGeo", DrawArgs.ground),
       RenderItem(BackWallWorld, Identity4x4, 1, "none", "shapeGeo", DrawArgs.wholeWall),
       RenderItem(LeftWallWorld, Identity4x4, 2, "none", "shapeGeo", DrawArgs.wholeWall),
       RenderItem(RightWallWorld, Identity4x4, 3, "none", "shapeGeo", DrawArgs.wholeWall),
       RenderItem(FrontWall1World, Identity4x4, 4, "none", "shapeGeo", DrawArgs.wholeWall),
       RenderItem(FrontWall2World, Identity4x4, 5, "none", "shapeGeo", DrawArgs.wholeWall) >>

BuildRenderItems(a) ==
    SubSeq(IF a = "castle" THEN CastleRitems ELSE ShapesRitems, 1, NumRitems)

Material(cbIndex, srvIndex, fresnel, roughness) ==
    [ MatCBIndex          |-> cbIndex,
      DiffuseSrvHeapIndex |-> srvIndex,
      DiffuseAlbedo       |-> <<One, One, One, One>>,
      FresnelR0           |-> <<fresnel, fresnel, fresnel>>,
      Roughness           |-> roughness,
      NumFramesDirty      |-> gNumFrameResources,
      MatTransform        |-> Identity4x4 ]

\* The order in which UpdateMaterialCBs visits mMaterials.
MaterialNames == <<"grass", "stone", "water", "wirefence">>

\* TexWavesApp::BuildMaterials.
CastleMaterials ==
    [ grass     |-> Material(0, 0, 1, 12),
      water     |-> Material(1, 1, 20, 0),
      wirefence |-> Material(2, 2, 10, 25),
      stone     |-> Material(3, 3, 10, 25) ]

BuildMaterials(a) ==
    IF a = "castle" THEN CastleMaterials ELSE <<>>

MaterialOrder(a) ==
    IF a = "castle" THEN MaterialNames ELSE <<>>

\* ------------------------------------------------------- upload buffers

\* d3dUtil::CalcConstantBufferByteSize: round up to a multiple of 256.
CalcConstantBufferByteSize(byteSize) == ((byteSize + 255) \div 256) * 256

\* sizeof(ObjectConstants): World and TexTransform (castle), World (shapes).
SizeofObjectConstants(a) ==
    IF a = "castle" THEN 2 * SizeofFloat4x4 ELSE SizeofFloat4x4

\* sizeof(MaterialConstants): DiffuseAlbedo, FresnelR0, Roughness, MatTransform.
SizeofMaterialConstants == SizeofFloat4 + SizeofFloat3 + SizeofFloat + SizeofFloat4x4

\* sizeof(PassConstants): six matrices, the eye position and a pad, two
\* float2, four floats; the castle adds the ambient light and 16 lights.
SizeofPassConstants(a) ==
    6 * SizeofFloat4x4 + SizeofFloat3 + SizeofFloat + 2 * (2 * SizeofFloat)
    + 4 * SizeofFloat
    + (IF a = "castle" THEN SizeofFloat4 + 16 * (3 * SizeofFloat4) ELSE 0)

\* sizeof(Vertex): Pos, Normal, TexC.
SizeofVertex == 2 * SizeofFloat3 + 2 * SizeofFloat

\* The value a record of an upload buffer holds before its first write.
Uninit == [Uninit |-> TRUE]

\* UploadBuffer<T>(device, elementCount, isConstantBuffer): one committed
\* resource at GPU virtual address va, elementCount records of
\* mElementByteSize bytes, mapped for the CPU.
UploadBuffer(va, elementSize, elementCount, isConstantBuffer) ==
    LET sz == IF isConstantBuffer
              THEN CalcConstantBufferByteSize(elementSize)
              ELSE elementSize
    IN  [ GPUVirtualAddress |-> va,
          mElementByteSize  |-> sz,
          mMappedData       |-> [off \in {i * sz : i \in 0..(elementCount - 1)} |-> Uninit] ]

\* Byte offset of record elementIndex in the mapped data.
ElementOffset(buf, elementIndex) == elementIndex * buf.mElementByteSize

\* The number of records of upload buffer buf.
Capacity(buf) == Cardinality(DOMAIN buf.mMappedData)

\* UploadBuffer::CopyData(elementIndex, data) fails, and writes nothing,
\* when the index is not below the capacity.
CopyFails(buf, elementIndex) == elementIndex >= Capacity(buf)

\* UploadBuffer::CopyData(elementIndex, data) when it does not fail.
CopyData(buf, elementIndex, data) ==
    [buf EXCEPT !.mMappedData =
        [off \in DOMAIN @ |-> IF off = ElementOffset(buf, elementIndex) THEN data ELSE @[off]]]

\* The address the device gives the k-th committed resource of ring slot s:
\* resources are placed 64 KB apart and never overlap.
DeviceVirtualAddress(s, k) == (1 + 4 * s + k) * 65536

\* FrameResource(device, passCount, objectCount, materialCount, waveVertCount)
\* for ring slot s.
FrameResource(a, s, passCount, objectCount, materialCount, waveVertCount) ==
    [ Fence      |-> 0,
      PassCB     |-> UploadBuffer(DeviceVirtualAddress(s, 0), SizeofPassConstants(a), passCount, TRUE),
      ObjectCB   |-> UploadBuffer(DeviceVirtualAddress(s, 1), SizeofObjectConstants(a), objectCount, TRUE),
      MaterialCB |-> UploadBuffer(DeviceVirtualAddress(s, 2), SizeofMaterialConstants, materialCount, TRUE),
      WavesVB    |-> UploadBuffer(DeviceVirtualAddress(s, 3), SizeofVertex, waveVertCount, FALSE) ]

Slots == 0..(gNumFrameResources - 1)

\* Mutant of BuildFrameResources: it runs before BuildRenderItems and
\* BuildMaterials, when mAllRitems and mMaterials are still empty.
BuildFrameResources_BeforeItems(a, ritems, mats) ==
    [ s \in Slots |->
        FrameResource(a, s, 1, 0, 0, IF a = "castle" THEN WaveVertexCount ELSE 0) ]

\* BuildFrameResources: gNumFrameResources frame resources, each sized to
\* mAllRitems.size() objects and mMaterials.size() materials (the shapes app
\* has neither materials nor waves).
BuildFrameResources(a, ritems, mats) ==
    [ s \in Slots |->
        FrameResource(a, s, 1, Len(ritems), Cardinality(DOMAIN mats),
                      IF a = "castle" THEN WaveVertexCount ELSE 0) ]

\* The names of the upload buffers of a frame resource.
BufferKinds == {"PassCB", "ObjectCB", "MaterialCB", "WavesVB"}

\* Whether address addr lies in upload buffer buf.
InBuffer(buf, addr) ==
    \E off \in DOMAIN buf.mMappedData :
        /\ buf.GPUVirtualAddress + off <= addr
        /\ addr < buf.GPUVirtualAddress + off + buf.mElementByteSize

\* What the GPU reads at address addr: the record that starts there, a
\* fault where no record starts.
ReadAddress(frs, addr) ==
    LET hits == { <<s, k>> \in Slots \X BufferKinds :
                    (addr - frs[s][k].GPUVirtualAddress) \in DOMAIN frs[s][k].mMappedData }
    IN  IF hits = {} THEN [Fault |-> addr]
        ELSE LET h == CHOOSE x \in hits : TRUE
             IN  frs[h[1]][h[2]].mMappedData[addr - frs[h[1]][h[2]].GPUVirtualAddress]

\* ------------------------------------------------------- dirty tracking

\* Mutants of MarkDirty: the count accumulates, and an item that is still
\* dirty is left alone.
MarkDirty_Accumulate(numFramesDirty) == numFramesDirty + gNumFrameResources

MarkDirty_IfClean(numFramesDirty) ==
    IF numFramesDirty = 0 THEN gNumFrameResources ELSE numFramesDirty

\* Mutant of MarkDirty: the modification forgets to mark.
MarkDirty_Forgotten(numFramesDirty) == numFramesDirty

\* "when we modify object data we should set NumFramesDirty =
\* gNumFrameResources": the dirty-count after a modification, whatever the
\* count was before.
MarkDirty(numFramesDirty) == gNumFrameResources

\* Mutant of IsDirty: a count of 0 still uploads.
IsDirty_AtZero(numFramesDirty) == numFramesDirty >= 0

\* Mutant of IsDirty: the test is left out.
IsDirty_Always(numFramesDirty) == TRUE

\* "if(e->NumFramesDirty > 0)": whether the constants must be uploaded.
IsDirty(numFramesDirty) == numFramesDirty > 0

\* Mutant of NextFrameResourceNeedsUpdate: the count drops by two.
NextFrameResourceNeedsUpdate_Twice(numFramesDirty) == numFramesDirty - 2

\* Mutant of NextFrameResourceNeedsUpdate: one upload makes the item clean.
NextFrameResourceNeedsUpdate_Clear(numFramesDirty) == 0

\* "e->NumFramesDirty--" after the upload into one frame resource.
NextFrameResourceNeedsUpdate(numFramesDirty) == numFramesDirty - 1

\* "if(tu >= 1.0f) tu -= 1.0f".
WrapTexCoord(t) == IF t >= One THEN t - One ELSE t

\* TexWavesApp::AnimateMaterials: scroll the water material's texture
\* coordinates and mark the material dirty.
AnimateMaterials(mats, dt) ==
    LET waterMat == mats["water"]
        tu == WrapTexCoord(MatAt(waterMat.MatTransform, 3, 0) + TuRate * dt)
        tv == WrapTexCoord(MatAt(waterMat.MatTransform, 3, 1) + TvRate * dt)
    IN  [mats EXCEPT !["water"] =
            [@ EXCEPT !.MatTransform   = MatSet(MatSet(@, 3, 0, tu), 3, 1, tv),
                      !.NumFramesDirty = MarkDirty(@)]]

\* The ObjectConstants UpdateObjectCBs computes for render item e.
ObjectConstants(a, e) ==
    IF a = "castle"
    THEN [ World        |-> XMMatrixTranspose(e.World),
           TexTransform |-> XMMatrixTranspose(e.TexTransform) ]
    ELSE [ World |-> XMMatrixTranspose(e.World) ]

\* The MaterialConstants UpdateMaterialCBs computes for material mat.
MaterialConstants(mat) ==
    [ DiffuseAlbedo |-> mat.DiffuseAlbedo,
      FresnelR0     |-> mat.FresnelR0,
      Roughness     |-> mat.Roughness,
      MatTransform  |-> XMMatrixTranspose(mat.MatTransform) ]

\* One CopyData call as the log of a frame's Update keeps it.
Copy(kind, slot, index) == [buffer |-> kind, slot |-> slot, index |-> index]

\* The loop of UpdateObjectCBs from item k on; st holds the items, the
\* current frame resource's ObjectCB and the CopyData calls so far.
RECURSIVE UpdateObjectCBsLoop(_, _, _, _)
UpdateObjectCBsLoop(a, slot, k, st) ==
    IF k > Len(st.ritems) \/ st.error THEN st
    ELSE LET e == st.ritems[k]
         IN  IF ~IsDirty(e.NumFramesDirty)
             THEN UpdateObjectCBsLoop(a, slot, k + 1, st)
             ELSE IF CopyFails(st.cb, e.ObjCBIndex)
             THEN [st EXCEPT !.error = TRUE]
             ELSE UpdateObjectCBsLoop(a, slot, k + 1,
                    [ ritems |-> [st.ritems EXCEPT ![k].NumFramesDirty =
                                     NextFrameResourceNeedsUpdate(@)],
                      cb     |-> CopyData(st.cb, e.ObjCBIndex, ObjectConstants(a, e)),
                      log    |-> Append(st.log, Copy("ObjectCB", slot, e.ObjCBIndex)),
                      error  |-> FALSE ])

\* Mutant of UpdateObjectCBs: a failure of CopyData is caught and dropped.
UpdateObjectCBs_Swallow(a, slot, ritems, currObjectCB) ==
    [ UpdateObjectCBsLoop(a, slot, 1,
          [ritems |-> ritems, cb |-> currObjectCB, log |-> <<>>, error |-> FALSE])
      EXCEPT !.error = FALSE ]

\* UpdateObjectCBs on the frame resource of ring slot `slot`: the items,
\* the ObjectCB and the CopyData calls afterwards, and whether a CopyData
\* failed (the loop has no handler: it ends there).
UpdateObjectCBs(a, slot, ritems, currObjectCB) ==
    UpdateObjectCBsLoop(a, slot, 1,
        [ritems |-> ritems, cb |-> currObjectCB, log |-> <<>>, error |-> FALSE])

\* The loop of UpdateMaterialCBs from the k-th material of `order` on.
RECURSIVE UpdateMaterialCBsLoop(_, _, _, _)
UpdateMaterialCBsLoop(order, slot, k, st) ==
    IF k > Len(order) \/ st.error THEN st
    ELSE LET mat == st.mats[order[k]]
         IN  IF ~IsDirty(mat.NumFramesDirty)
             THEN UpdateMaterialCBsLoop(order, slot, k + 1, st)
             ELSE IF CopyFails(st.cb, mat.MatCBIndex)
             THEN [st EXCEPT !.error = TRUE]
             ELSE UpdateMaterialCBsLoop(order, slot, k + 1,
                    [ mats  |-> [st.mats EXCEPT ![order[k]].NumFramesDirty =
                                    NextFrameResourceNeedsUpdate(@)],
                      cb    |-> CopyData(st.cb, mat.MatCBIndex, MaterialConstants(mat)),
                      log   |-> Append(st.log, Copy("MaterialCB", slot, mat.MatCBIndex)),
                      error |-> FALSE ])

\* Mutant of UpdateMaterialCBs: the loop runs over the render items and
\* copies the material of every item whose material is dirty.
UpdateMaterialCBs_PerItem(order, slot, mats, currMaterialCB) ==
    LET st == UpdateMaterialCBsLoop(order, slot, 1,
                  [mats |-> mats, cb |-> currMaterialCB, log |-> <<>>, error |-> FALSE])
        IsDirtyItem(ri) == IsDirty(mats[ri.Mat].NumFramesDirty)
        dirtyItems == SelectSeq(BuildRenderItems("castle"), IsDirtyItem)
    IN  [st EXCEPT !.log =
            [j \in 1..Len(dirtyItems) |->
                Copy("MaterialCB", slot, mats[dirtyItems[j].Mat].MatCBIndex)]]

\* UpdateMaterialCBs: one visit per material of mMaterials.
UpdateMaterialCBs(order, slot, mats, currMaterialCB) ==
    UpdateMaterialCBsLoop(order, slot, 1, [mats |-> mats, cb |-> currMaterialCB, log |-> <<>>, error |-> FALSE])

\* The PassConstants of a frame: what depends on the timer is kept, the
\* camera is fixed.
PassConstants(timer) ==
    [ NearZ |-> One, FarZ |-> 1000 * One,
      TotalTime |-> timer.TotalTime, DeltaTime |-> timer.DeltaTime ]

\* UpdateMainPassCB: currPassCB->CopyData(0, mMainPassCB).
UpdateMainPassCB(slot, timer, currPassCB) ==
    IF CopyFails(currPassCB, 0)
    THEN [cb |-> currPassCB, log |-> <<>>, error |-> TRUE]
    ELSE [ cb    |-> CopyData(currPassCB, 0, PassConstants(timer)),
           log   |-> <<Copy("PassCB", slot, 0)>>,
           error |-> FALSE ]

\* Vertex i of the wave solution `waves`.
WaveVertex(waves, i) == [Pos |-> <<i, waves>>, TexC |-> <<i, 0>>]

\* The vertex loop of UpdateWaves from vertex i on.
RECURSIVE UpdateWavesLoop(_, _, _, _)
UpdateWavesLoop(waves, slot, i, st) ==
    IF i >= WaveVertexCount \/ st.error THEN st
    ELSE IF CopyFails(st.cb, i) THEN [st EXCEPT !.error = TRUE]
    ELSE UpdateWavesLoop(waves, slot, i + 1,
            [ cb    |-> CopyData(st.cb, i, WaveVertex(waves, i)),
              log   |-> Append(st.log, Copy("WavesVB", slot, i)),
              error |-> FALSE ])

\* UpdateWaves: advance the simulation by dt and copy every vertex into the
\* current frame resource's WavesVB.
UpdateWaves(waves, slot, currWavesVB) ==
    UpdateWavesLoop(waves, slot, 0, [cb |-> currWavesVB, log |-> <<>>, error |-> FALSE])

\* ------------------------------------------------------------ draw path

\* The default-heap vertex buffer of the static geometry ("shapeGeo").
StaticVertexBufferGPU == DeviceVirtualAddress(gNumFrameResources, 0)

\* ri->Geo->VertexBufferView(): the water geometry's vertex buffer is the
\* WavesVB that UpdateWaves stored last.
VertexBufferLocation(ri, wavesVertexBufferGPU) ==
    IF ri.Geo = "waterGeo" THEN wavesVertexBufferGPU ELSE StaticVertexBufferGPU

\* TexWavesApp::DrawRenderItems: objectCB->GetGPUVirtualAddress() +
\* ri->ObjCBIndex*objCBByteSize.
CastleObjCBAddress(currFrameResource, ri) ==
    currFrameResource.ObjectCB.GPUVirtualAddress
    + ri.ObjCBIndex * CalcConstantBufferByteSize(SizeofObjectConstants("castle"))

\* TexWavesApp::DrawRenderItems: matCB->GetGPUVirtualAddress() +
\* ri->Mat->MatCBIndex*matCBByteSize.
CastleMatCBAddress(currFrameResource, mat) ==
    currFrameResource.MaterialCB.GPUVirtualAddress
    + mat.MatCBIndex * CalcConstantBufferByteSize(SizeofMaterialConstants)

\* Mutant of ShapesCbvIndex: the frame resource index is left out.
ShapesCbvIndex_NoSlot(currFrameResourceIndex, opaqueCount, ri) == ri.ObjCBIndex

\* ShapesApp::DrawRenderItems: the descriptor of this object in this frame
\* resource.
ShapesCbvIndex(currFrameResourceIndex, opaqueCount, ri) ==
    currFrameResourceIndex * opaqueCount + ri.ObjCBIndex

\* The commands DrawRenderItems records for the k-th item of the list.
DrawCommand(a, k, ri, currFrameResourceIndex, currFrameResource, mats, opaqueCount, wavesVB) ==
    IF a = "castle"
    THEN [ ritem                 |-> k,
           vertexBuffer          |-> VertexBufferLocation(ri, wavesVB),
           tex                   |-> mats[ri.Mat].DiffuseSrvHeapIndex,
           objCBAddress          |-> CastleObjCBAddress(currFrameResource, ri),
           matCBAddress          |-> CastleMatCBAddress(currFrameResource, mats[ri.Mat]),
           IndexCountPerInstance |-> ri.IndexCount,
           StartIndexLocation    |-> ri.StartIndexLocation,
           BaseVertexLocation    |-> ri.BaseVertexLocation ]
    ELSE [ ritem                 |-> k,
           vertexBuffer          |-> VertexBufferLocation(ri, wavesVB),
           cbvIndex              |-> ShapesCbvIndex(currFrameResourceIndex, opaqueCount, ri),
           IndexCountPerInstance |-> ri.IndexCount,
           StartIndexLocation    |-> ri.StartIndexLocation,
           BaseVertexLocation    |-> ri.BaseVertexLocation ]

\* DrawRenderItems(cmdList, ritems): one draw per item, in list order.
DrawRenderItems(a, ritems, currFrameResourceIndex, currFrameResource, mats, wavesVB) ==
    [ k \in 1..Len(ritems) |->
        DrawCommand(a, k, ritems[k], currFrameResourceIndex, currFrameResource,
                    mats, Len(ritems), wavesVB) ]

\* ------------------------------------------- shapes app descriptor heap

NullDescriptor == [BufferLocation |-> 0, SizeInBytes |-> 0]

\* Mutant of NumDescriptors: no room for the pass CBVs.
NumDescriptors_NoPass(objCount) == objCount * gNumFrameResources

\* ShapesApp::BuildDescriptorHeaps: (objCount + 1) * gNumFrameResources
\* descriptors.
NumDescriptors(objCount) == (objCount + 1) * gNumFrameResources

\* ShapesApp::BuildDescriptorHeaps: the pass CBVs are the last descriptors.
PassCbvOffset(objCount) == objCount * gNumFrameResources

\* Mutant of ObjectCbvHeapIndex: the stride is the ring size.
ObjectCbvHeapIndex_RingStride(frameIndex, objCount, i) ==
    frameIndex * gNumFrameResources + i

\* ShapesApp::BuildConstantBufferViews: heap index of the object CBV of
\* object i in frame resource frameIndex.
ObjectCbvHeapIndex(frameIndex, objCount, i) == frameIndex * objCount + i

\* ShapesApp::BuildConstantBufferViews: heap index of the pass CBV.
PassCbvHeapIndex(passCbvOffset, frameIndex) == passCbvOffset + frameIndex

\* CreateConstantBufferView(&cbvDesc, handle) at heapIndex.
CreateConstantBufferView(heap, heapIndex, location, size) ==
    [h \in DOMAIN heap |->
        IF h = heapIndex THEN [BufferLocation |-> location, SizeInBytes |-> size]
        ELSE heap[h]]

\* The object loop of BuildConstantBufferViews, flattened: step n is
\* frameIndex = n \div objCount, i = n % objCount.
RECURSIVE ObjectCbvLoop(_, _, _, _)
ObjectCbvLoop(frs, objCount, n, heap) ==
    IF n >= gNumFrameResources * objCount THEN heap
    ELSE LET frameIndex == n \div objCount
             i == n % objCount
             objCBByteSize == CalcConstantBufferByteSize(SizeofObjectConstants("shapes"))
             cbAddress == frs[frameIndex].ObjectCB.GPUVirtualAddress + i * objCBByteSize
         IN  ObjectCbvLoop(frs, objCount, n + 1,
                CreateConstantBufferView(heap, ObjectCbvHeapIndex(frameIndex, objCount, i),
                                         cbAddress, objCBByteSize))

\* The pass loop of BuildConstantBufferViews.
RECURSIVE PassCbvLoop(_, _, _, _)
PassCbvLoop(frs, passCbvOffset, frameIndex, heap) ==
    IF frameIndex >= gNumFrameResources THEN heap
    ELSE PassCbvLoop(frs, passCbvOffset, frameIndex + 1,
            CreateConstantBufferView(heap, PassCbvHeapIndex(passCbvOffset, frameIndex),
                                     frs[frameIndex].PassCB.GPUVirtualAddress,
                                     CalcConstantBufferByteSize(SizeofPassConstants("shapes"))))

\* BuildDescriptorHeaps followed by BuildConstantBufferViews (the castle app
\* has no CBV heap: it binds addresses directly).
BuildConstantBufferViews(a, frs, objCount) ==
    IF a = "castle" THEN <<>>
    ELSE PassCbvLoop(frs, PassCbvOffset(objCount), 0,
            ObjectCbvLoop(frs, objCount, 0,
                [h \in 0..(NumDescriptors(objCount) - 1) |-> NullDescriptor]))

\* The descriptor at heap index i, the null descriptor outside the heap.
DescriptorAt(heap, i) == IF i \in DOMAIN heap THEN heap[i] ELSE NullDescriptor

\* --------------------------------------------------- what the GPU reads

\* The address at which the GPU reads the object constants of draw d.
ObjCBLocation(a, heap, d) ==
    IF a = "castle" THEN d.objCBAddress ELSE DescriptorAt(heap, d.cbvIndex).BufferLocation

\* The address at which the GPU reads the pass constants of command list cl.
PassCBLocation(a, heap, cl) ==
    IF a = "castle" THEN cl.passCBAddress
    ELSE DescriptorAt(heap, cl.passCbvIndex).BufferLocation

\* Every address command list cl makes the GPU read.
AddressesRead(a, heap, cl) ==
    {PassCBLocation(a, heap, cl)}
    \cup {ObjCBLocation(a, heap, cl.draws[k]) : k \in DOMAIN cl.draws}
    \cup {cl.draws[k].vertexBuffer : k \in DOMAIN cl.draws}
    \cup (IF a = "castle"
          THEN {cl.draws[k].matCBAddress : k \in DOMAIN cl.draws}
          ELSE {})

\* The ring slots whose upload buffers command list cl makes the GPU read.
SlotsRead(a, heap, frs, cl) ==
    { s \in Slots : \E addr \in AddressesRead(a, heap, cl), k \in BufferKinds :
                        InBuffer(frs[s][k], addr) }

\* ---------------------------------------------------------------- state

VARIABLES
    app,                      \* which of the two applications runs
    pc,                       \* where the CPU thread is in Run's loop
    mCurrFrameResourceIndex,  \* int mCurrFrameResourceIndex
    mFrameResources,          \* the ring: slot -> FrameResource
    mCurrentFence,            \* D3DApp::mCurrentFence
    mFence,                   \* mFence->GetCompletedValue()
    mCommandQueue,            \* what the GPU has been given and not finished
    mCommandList,             \* the command list as last recorded
    mAllRitems,               \* the render items
    mMaterials,               \* name -> Material
    mTimer,                   \* gt: TotalTime and DeltaTime
    mWaves,                   \* the wave simulation's solution
    mWavesVertexBufferGPU,    \* mWavesRitem->Geo->VertexBufferGPU
    mCbvHeap,                 \* shapes app: the CBV descriptor heap
    frameCounter,             \* frames started so far
    copyLog,                  \* the CopyData calls of the latest Update
    uploads,                  \* CopyData calls so far, counted per record
    client,                   \* what the caller of AnimateMaterials did last
    waited,                   \* whether the latest Update had to wait
    md3dDevice,               \* D3DApp::md3dDevice is not null
    initResult                \* how Initialize ended: "none" before it has

vars ==
    << app, pc, mCurrFrameResourceIndex, mFrameResources, mCurrentFence, mFence,
       mCommandQueue, mCommandList, mAllRitems, mMaterials, mTimer, mWaves,
       mWavesVertexBufferGPU, mCbvHeap, frameCounter, copyLog, uploads, client,
       waited, md3dDevice, initResult >>

\* What only the CPU thread changes.
cpuVars ==
    << pc, mCurrFrameResourceIndex, mFrameResources, mCurrentFence, mCommandList,
       mAllRitems, mMaterials, mTimer, mWaves, mWavesVertexBufferGPU,
       frameCounter, copyLog, uploads, waited, md3dDevice, initResult >>

\* Mutant of mCurrFrameResource: the pointer is not moved on with the index.
mCurrFrameResource_NotAdvanced == mFrameResources[0]

\* mCurrFrameResource = mFrameResources[mCurrFrameResourceIndex].get()
mCurrFrameResource == mFrameResources[mCurrFrameResourceIndex]

\* The state when Initialize has returned: the scene, the ring and the heap
\* are built, the queue is flushed, and the fence has reached the value the
\* flushes of Initialize left in mCurrentFence.
Init ==
    /\ app \in Apps
    /\ pc = "Run"
    /\ mCurrFrameResourceIndex = 0
    /\ mAllRitems = BuildRenderItems(app)
    /\ mMaterials = BuildMaterials(app)
    /\ mFrameResources = BuildFrameResources(app, mAllRitems, mMaterials)
    /\ mCbvHeap = BuildConstantBufferViews(app, mFrameResources, Len(mAllRitems))
    /\ mCurrentFence \in 0..MaxInitFence
    /\ mFence = mCurrentFence
    /\ mCommandQueue = <<>>
    /\ mCommandList = [alloc |-> -1, draws |-> <<>>]
    /\ mTimer = [TotalTime |-> 0, DeltaTime |-> 0]
    /\ mWaves = 0
    /\ mWavesVertexBufferGPU = 0
    /\ frameCounter = 0
    /\ copyLog = <<>>
    /\ uploads = <<>>
    /\ client = [marks |-> 0, burst |-> 0, markedAt |-> -1, sinceMark |-> 0]
    /\ waited = FALSE
    /\ md3dDevice = TRUE
    /\ initResult = "ok"

\* -------------------------------------------------------------- Update

\* Mutant of NextFrameResourceIndex: the index advances by two.
NextFrameResourceIndex_Skip(i) == (i + 2) % gNumFrameResources

\* Mutant of NextFrameResourceIndex: the ring is walked backwards.
NextFrameResourceIndex_Back(i) == (i + gNumFrameResources - 1) % gNumFrameResources

\* "(mCurrFrameResourceIndex + 1) % gNumFrameResources"
NextFrameResourceIndex(i) == (i + 1) % gNumFrameResources

\* Mutants of MustWait: the comparison turned round, and off by one.
MustWait_Reversed(fence, completed) == fence # 0 /\ completed > fence

MustWait_OffByOne(fence, completed) == fence # 0 /\ completed + 1 < fence

\* Mutant of MustWait: every slot submitted before is waited for.
MustWait_Always(fence, completed) == fence # 0

\* Mutant of MustWait: "!=" written as "==".
MustWait_OnlyUnsubmitted(fence, completed) == fence = 0 /\ completed < fence

\* Mutant of MustWait: the latest submission is waited for, not the slot's.
MustWait_Latest(fence, completed) == fence # 0 /\ completed < mCurrentFence

\* "mCurrFrameResource->Fence != 0 && mFence->GetCompletedValue() <
\* mCurrFrameResource->Fence"
MustWait(fence, completed) == fence # 0 /\ completed < fence

\* Mutants of EventSet: the event is set one fence value early, and the
\* wait returns at once.
EventSet_Early(fence, completed) == completed + 1 >= fence

EventSet_NoWait(fence, completed) == TRUE

\* Mutant of EventSet: the event is set only once the fence has passed the
\* value.
EventSet_Late(fence, completed) == completed > fence

\* Mutant of EventSet: the event is never set.
EventSet_Never(fence, completed) == FALSE

\* SetEventOnCompletion(fence, eventHandle): the event is set once the
\* fence has reached the value.
EventSet(fence, completed) == completed >= fence

\* Update up to the fence check: the timer has ticked, the ring index
\* advances, and the thread either goes on or starts to wait.
UpdateBegin ==
    /\ pc = "Run"
    /\ frameCounter < MaxFrames
    /\ \E dt \in DeltaTimes :
          mTimer' = [TotalTime |-> mTimer.TotalTime + dt, DeltaTime |-> dt]
    /\ mCurrFrameResourceIndex' = NextFrameResourceIndex(mCurrFrameResourceIndex)
    /\ frameCounter' = frameCounter + 1
    /\ pc' = IF MustWait(mFrameResources[mCurrFrameResourceIndex'].Fence, mFence)
             THEN "Update_Wait" ELSE "Update_CBs"
    /\ waited' = (pc' = "Update_Wait")
    /\ UNCHANGED << app, mFrameResources, mCurrentFence, mFence, mCommandQueue,
                    mCommandList, mAllRitems, mMaterials, mWaves,
                    mWavesVertexBufferGPU, mCbvHeap, copyLog, uploads, client, md3dDevice, initResult >>

\* WaitForSingleObject(eventHandle, INFINITE) returns.
UpdateWait ==
    /\ pc = "Update_Wait"
    /\ EventSet(mCurrFrameResource.Fence, mFence)
    /\ pc' = "Update_CBs"
    /\ UNCHANGED << app, mCurrFrameResourceIndex, mFrameResources, mCurrentFence,
                    mFence, mCommandQueue, mCommandList, mAllRitems, mMaterials,
                    mTimer, mWaves, mWavesVertexBufferGPU, mCbvHeap, frameCounter,
                    copyLog, uploads, client,
                    waited, md3dDevice, initResult >>

\* The number of times c occurs in log.
CountIn(log, c) == Cardinality({j \in DOMAIN log : log[j] = c})

\* uploads with the calls of log counted in.
CountUploads(counts, log) ==
    [ c \in DOMAIN counts \cup {log[j] : j \in DOMAIN log} |->
        (IF c \in DOMAIN counts THEN counts[c] ELSE 0) + CountIn(log, c) ]

\* UpdateObjectCBs, UpdateMaterialCBs, UpdateMainPassCB and UpdateWaves on
\* the frame resource fr of ring slot `slot` (the shapes app has the first
\* and the third only): the items, the materials and the frame resource
\* afterwards, the CopyData calls made, and whether one of them failed: a
\* failure leaves Update at once, so the functions after it do not run.
UpdateBuffers(a, slot, fr, ritems, mats, timer, waves) ==
    LET obj == UpdateObjectCBs(a, slot, ritems, fr.ObjectCB)
        mat == IF obj.error
               THEN [mats |-> mats, cb |-> fr.MaterialCB, log |-> <<>>, error |-> TRUE]
               ELSE UpdateMaterialCBs(MaterialOrder(a), slot, mats, fr.MaterialCB)
        pass == IF mat.error
                THEN [cb |-> fr.PassCB, log |-> <<>>, error |-> TRUE]
                ELSE UpdateMainPassCB(slot, timer, fr.PassCB)
        wav == IF a = "castle" /\ ~pass.error
               THEN UpdateWaves(waves, slot, fr.WavesVB)
               ELSE [cb |-> fr.WavesVB, log |-> <<>>, error |-> pass.error]
    IN  [ ritems |-> obj.ritems,
          mats   |-> mat.mats,
          fr     |-> [fr EXCEPT !.ObjectCB = obj.cb, !.MaterialCB = mat.cb,
                                !.PassCB = pass.cb, !.WavesVB = wav.cb],
          log    |-> obj.log \o mat.log \o pass.log \o wav.log,
          error  |-> wav.error ]

\* The rest of Update: AnimateMaterials, UpdateObjectCBs, UpdateMaterialCBs,
\* UpdateMainPassCB, UpdateWaves (the shapes app has the second and the
\* fourth only). A CopyData failure leaves Update and Run: the frame loop
\* is over.
UpdateCBs ==
    /\ pc = "Update_CBs"
    /\ LET slot == mCurrFrameResourceIndex
           animated == IF app = "castle"
                       THEN AnimateMaterials(mMaterials, mTimer.DeltaTime)
                       ELSE mMaterials
           waves == IF app = "castle" THEN mWaves + mTimer.DeltaTime ELSE mWaves
           upd == UpdateBuffers(app, slot, mCurrFrameResource, mAllRitems,
                                animated, mTimer, waves)
       IN  /\ mAllRitems' = upd.ritems
           /\ mMaterials' = upd.mats
           /\ mWaves' = waves
           /\ mFrameResources' = [mFrameResources EXCEPT ![slot] = upd.fr]
           /\ mWavesVertexBufferGPU' =
                 IF app = "castle" THEN mCurrFrameResource.WavesVB.GPUVirtualAddress
                 ELSE mWavesVertexBufferGPU
           /\ copyLog' = upd.log
           /\ uploads' = CountUploads(uploads, upd.log)
           /\ pc' = IF upd.error THEN "Failed" ELSE "Draw"
    /\ UNCHANGED << app, mCurrFrameResourceIndex, mCurrentFence, mFence,
                    mCommandQueue, mCommandList, mTimer, mCbvHeap, frameCounter,
                    client,
                    waited, md3dDevice, initResult >>

\* ---------------------------------------------------------------- Draw

\* Mutant of PassCbvIndex: the frame resource index is left out.
PassCbvIndex_NoSlot(passCbvOffset, currFrameResourceIndex) == passCbvOffset

\* ShapesApp::Draw: "int passCbvIndex = mPassCbvOffset +
\* mCurrFrameResourceIndex".
PassCbvIndex(passCbvOffset, currFrameResourceIndex) ==
    passCbvOffset + currFrameResourceIndex

\* The command list Draw records: the allocator it is recorded with, the
\* pass constants it binds, and the draws of the opaque items.
RecordCommandList(a, currFrameResourceIndex, currFrameResource, ritems, mats, wavesVB) ==
    LET draws == DrawRenderItems(a, ritems, currFrameResourceIndex,
                                 currFrameResource, mats, wavesVB)
    IN  IF a = "castle"
        THEN [ alloc         |-> currFrameResourceIndex,
               passCBAddress |-> currFrameResource.PassCB.GPUVirtualAddress,
               draws         |-> draws ]
        ELSE [ alloc        |-> currFrameResourceIndex,
               passCbvIndex |-> PassCbvIndex(PassCbvOffset(Len(ritems)),
                                             currFrameResourceIndex),
               draws        |-> draws ]

\* Mutant of DrawExecute: DrawRenderItems takes every item it draws for
\* uploaded and clears its dirty-count.
DrawExecute_MarksClean ==
    /\ pc = "Draw"
    /\ mCommandList' = RecordCommandList(app, mCurrFrameResourceIndex,
                            mCurrFrameResource, mAllRitems, mMaterials,
                            mWavesVertexBufferGPU)
    /\ mCommandQueue' = Append(mCommandQueue, [type |-> "execute", list |-> mCommandList'])
    /\ mAllRitems' = [k \in DOMAIN mAllRitems |-> [mAllRitems[k] EXCEPT !.NumFramesDirty = 0]]
    /\ pc' = "Draw_Signal"
    /\ UNCHANGED << app, mCurrFrameResourceIndex, mFrameResources, mCurrentFence,
                    mFence, mMaterials, mTimer, mWaves,
                    mWavesVertexBufferGPU, mCbvHeap, frameCounter, copyLog, uploads,
                    client, waited, md3dDevice, initResult >>

\* Draw up to ExecuteCommandLists: the current frame resource's allocator
\* is reset, the command list is recorded with it and handed to the queue.
DrawExecute ==
    /\ pc = "Draw"
    /\ mCommandList' = RecordCommandList(app, mCurrFrameResourceIndex,
                            mCurrFrameResource, mAllRitems, mMaterials,
                            mWavesVertexBufferGPU)
    /\ mCommandQueue' = Append(mCommandQueue, [type |-> "execute", list |-> mCommandList'])
    /\ pc' = "Draw_Signal"
    /\ UNCHANGED << app, mCurrFrameResourceIndex, mFrameResources, mCurrentFence,
                    mFence, mAllRitems, mMaterials, mTimer, mWaves,
                    mWavesVertexBufferGPU, mCbvHeap, frameCounter, copyLog, uploads,
                    client,
                    waited, md3dDevice, initResult >>

\* Mutant of AdvanceFence: the counter is stamped without being advanced.
AdvanceFence_Stale(currentFence) == currentFence

\* "++mCurrentFence"
AdvanceFence(currentFence) == currentFence + 1

\* The rest of Draw: Present, "mCurrFrameResource->Fence = ++mCurrentFence"
\* and Signal(mFence, mCurrentFence).
DrawSignal ==
    /\ pc = "Draw_Signal"
    /\ mCurrentFence' = AdvanceFence(mCurrentFence)
    /\ mFrameResources' =
          [mFrameResources EXCEPT ![mCurrFrameResourceIndex].Fence = mCurrentFence']
    /\ mCommandQueue' = Append(mCommandQueue, [type |-> "signal", value |-> mCurrentFence'])
    /\ pc' = "Run"
    /\ UNCHANGED << app, mCurrFrameResourceIndex, mFence, mCommandList, mAllRitems,
                    mMaterials, mTimer, mWaves, mWavesVertexBufferGPU, mCbvHeap,
                    frameCounter, copyLog, uploads, client,
                    waited, md3dDevice, initResult >>

\* ----------------------------------------------------------------- GPU

\* The GPU finishes the command list at the head of the queue.
GpuExecute ==
    /\ mCommandQueue # <<>>
    /\ Head(mCommandQueue).type = "execute"
    /\ mCommandQueue' = Tail(mCommandQueue)
    /\ UNCHANGED << app, mFence, mCbvHeap, client >>
    /\ UNCHANGED cpuVars

\* The GPU reaches a Signal: the fence takes the signalled value.
GpuSignal ==
    /\ mCommandQueue # <<>>
    /\ Head(mCommandQueue).type = "signal"
    /\ mFence' = Head(mCommandQueue).value
    /\ mCommandQueue' = Tail(mCommandQueue)
    /\ UNCHANGED << app, mCbvHeap, client >>
    /\ UNCHANGED cpuVars

Next ==
    \/ UpdateBegin
    \/ UpdateWait
    \/ UpdateCBs
    \/ DrawExecute
    \/ DrawSignal
    \/ GpuExecute
    \/ GpuSignal

Spec == Init /\ [][Next]_vars

\* ------------------------------------------------------------- typing

TypeOK ==
    /\ app \in Apps
    /\ pc \in {"WinMain", "Run", "Update_Wait", "Update_CBs", "Draw", "Draw_Signal",
              "Failed", "Destruct", "Flush_Wait", "Release", "Exit"}
    /\ md3dDevice \in BOOLEAN
    /\ initResult \in {"none", "ok", "false", "throw"}
    /\ mCurrFrameResourceIndex \in Slots
    /\ mCurrentFence \in Nat
    /\ mFence \in Nat
    /\ frameCounter \in 0..MaxFrames

\* ---------------------------------------------------------------- claims

\* The execute commands the GPU has not finished.
Unfinished == {j \in DOMAIN mCommandQueue : mCommandQueue[j].type = "execute"}

\* The Signals the GPU has not reached.
Outstanding ==
    {j \in DOMAIN mCommandQueue :
        mCommandQueue[j].type = "signal" /\ mCommandQueue[j].value > mFence}

\* C1: when the CPU starts using the ring slot it selected (the fence check
\* or wait of Update is behind it; no CopyData into the slot, no reset of
\* its allocator and no new stamp has happened yet), the slot's Fence is 0
\* or the fence's completed value has reached the slot's Fence.
C1_SlotReusedAfterFence ==
    pc \in {"Update_CBs", "Draw", "Draw_Signal"} =>
        \/ mCurrFrameResource.Fence = 0
        \/ mFence >= mCurrFrameResource.Fence

\* C1 witness: the CPU is about to write a slot that was submitted before,
\* whose fence value has just been reached while later frames are still
\* outstanding.
C1_Witness ==
    /\ pc = "Update_CBs"
    /\ mCurrFrameResource.Fence # 0
    /\ mFence = mCurrFrameResource.Fence
    /\ mCurrentFence > mFence

\* C2: while the CPU is between the fence wait and the end of Update's
\* CopyData calls, the GPU has no unfinished command list that reads an
\* upload buffer (ObjectCB, PassCB, MaterialCB, WavesVB) of the current slot.
C2_NoWriteWhileGpuReads ==
    pc = "Update_CBs" =>
        \A j \in Unfinished :
            mCurrFrameResourceIndex \notin
                SlotsRead(app, mCbvHeap, mFrameResources, mCommandQueue[j].list)

\* C2 witness: the CPU is about to write a slot submitted before while the
\* GPU still holds an unfinished command list (of another slot).
C2_Witness ==
    /\ pc = "Update_CBs"
    /\ mCurrFrameResource.Fence # 0
    /\ Unfinished # {}
    /\ \E j \in Unfinished :
          SlotsRead(app, mCbvHeap, mFrameResources, mCommandQueue[j].list) # {}

\* C4: at most gNumFrameResources submitted frames (ExecuteCommandLists and
\* Signal both enqueued) have a fence value the GPU has not reached.
C4_AtMostNOutstanding ==
    /\ Cardinality(Outstanding) <= gNumFrameResources
    /\ mCurrentFence - mFence <= gNumFrameResources

\* C4 witness: exactly gNumFrameResources frames are outstanding.
C4_Witness ==
    /\ Cardinality(Outstanding) = gNumFrameResources
    /\ mCurrentFence - mFence = gNumFrameResources

\* The CPU is in the wait of Update and the fence has not reached the
\* slot's Fence.
Blocked ==
    pc = "Update_Wait" /\ mFence < mCurrFrameResource.Fence

\* C7: when the loop comes to a slot that was submitted and whose Fence
\* the completed value has not reached, the CPU starts to wait; while it
\* waits and the Fence is not reached, no step changes anything the CPU
\* owns (no upload buffer is written, no allocator reset, nothing
\* submitted); and once the completed value has reached the slot's Fence
\* the wait can return.
C7_WrapAroundBlocks ==
    /\ [][pc = "Run" /\ pc' # "Run" =>
            LET v == mFrameResources[mCurrFrameResourceIndex'].Fence
            IN  v # 0 /\ mFence < v => pc' = "Update_Wait" /\ Blocked']_vars
    /\ [][Blocked => /\ UNCHANGED cpuVars
                     /\ Len(mCommandQueue') <= Len(mCommandQueue)]_vars
    /\ [](pc = "Update_Wait" /\ mFence >= mCurrFrameResource.Fence
            => ENABLED UpdateWait)

\* C7 witness: the loop is back at a slot submitted gNumFrameResources
\* frames ago and the GPU has not reached its Fence.
C7_Witness ==
    /\ Blocked
    /\ frameCounter > gNumFrameResources
    /\ mCurrFrameResource.Fence = mCurrentFence - gNumFrameResources + 1

\* ------------------------------------- dirty tracking under any client

\* The frame loop calls AnimateMaterials once per Update.  The contract of
\* the dirty-count is about any caller, so this second specification lets
\* a client call AnimateMaterials zero to MaxMarks times between two frame
\* updates; the GPU is idle, no slot is ever waited for.

\* The client calls AnimateMaterials: the water material is modified and
\* marked dirty.
ClientMark ==
    /\ pc = "Run"
    /\ client.marks < MaxMarks
    /\ \E dt \in DeltaTimes :
          mMaterials' = AnimateMaterials(mMaterials, dt)
    /\ client' = [ marks     |-> client.marks + 1,
                   burst     |-> client.marks + 1,
                   markedAt  |-> IF client.marks = 0
                                 THEN mMaterials["water"].NumFramesDirty
                                 ELSE client.markedAt,
                   sinceMark |-> 0 ]
    /\ UNCHANGED << app, pc, mCurrFrameResourceIndex, mFrameResources,
                    mCurrentFence, mFence, mCommandQueue, mCommandList,
                    mAllRitems, mTimer, mWaves, mWavesVertexBufferGPU, mCbvHeap,
                    frameCounter, copyLog, uploads, waited, md3dDevice, initResult >>

\* One frame update without a call of AnimateMaterials: the ring index
\* advances and the update functions run on the new current slot.
ClientFrame ==
    /\ pc = "Run"
    /\ frameCounter < MaxFrames
    /\ mCurrFrameResourceIndex' = NextFrameResourceIndex(mCurrFrameResourceIndex)
    /\ frameCounter' = frameCounter + 1
    /\ LET slot == mCurrFrameResourceIndex'
           upd == UpdateBuffers(app, slot, mFrameResources[slot], mAllRitems,
                                mMaterials, mTimer, mWaves)
       IN  /\ mAllRitems' = upd.ritems
           /\ mMaterials' = upd.mats
           /\ mFrameResources' = [mFrameResources EXCEPT ![slot] = upd.fr]
           /\ mWavesVertexBufferGPU' = mFrameResources[slot].WavesVB.GPUVirtualAddress
           /\ copyLog' = upd.log
           /\ uploads' = CountUploads(uploads, upd.log)
    /\ client' = [client EXCEPT
                     !.marks = 0,
                     !.sinceMark = IF @ < gNumFrameResources THEN @ + 1 ELSE @]
    /\ UNCHANGED << app, pc, mCurrentFence, mFence, mCommandQueue, mCommandList,
                    mTimer, mWaves, mCbvHeap, waited, md3dDevice, initResult >>

ClientInit == Init /\ app = "castle"

ClientNext == ClientMark \/ ClientFrame

ClientSpec == ClientInit /\ [][ClientNext]_vars

\* The frame updates that have run to their end.
UpdatesDone ==
    IF pc \in {"Update_Wait", "Update_CBs"} THEN frameCounter - 1 ELSE frameCounter

\* The ring slots the first k frame updates wrote, one per frame.
SlotsOfFrames(k) == {f % gNumFrameResources : f \in 1..k}

\* The record of index `index` in upload buffer buf.
RecordAt(buf, index) == buf.mMappedData[ElementOffset(buf, index)]

\* The materials other than the one AnimateMaterials modifies.
StaticMaterials == DOMAIN mMaterials \ {"water"}

\* The dirty-count gNumFrameResources has after k decrements.
CountAfter(k) == IF k < gNumFrameResources THEN gNumFrameResources - k ELSE 0

\* C3: an item or material marked dirty before the first frame's update and
\* not modified again has its constants written at its own index in one
\* more ring slot with every frame update, no slot skipped and none written
\* twice: after k updates exactly the slots of frames 1..k hold them, and
\* from the gNumFrameResources-th update on every slot does.
C3_DirtyReachesEverySlot ==
    \A s \in Slots :
        LET written == s \in SlotsOfFrames(UpdatesDone)
            fr == mFrameResources[s]
        IN  /\ UpdatesDone >= gNumFrameResources => written
            /\ \A k \in DOMAIN mAllRitems :
                  LET e == mAllRitems[k]
                      c == Copy("ObjectCB", s, e.ObjCBIndex)
                  IN  /\ written <=> RecordAt(fr.ObjectCB, e.ObjCBIndex)
                                        = ObjectConstants(app, e)
                      /\ written <=> (c \in DOMAIN uploads /\ uploads[c] = 1)
                      /\ ~written <=> c \notin DOMAIN uploads
            /\ \A m \in StaticMaterials :
                  LET mat == mMaterials[m]
                      c == Copy("MaterialCB", s, mat.MatCBIndex)
                  IN  /\ written <=> RecordAt(fr.MaterialCB, mat.MatCBIndex)
                                        = MaterialConstants(mat)
                      /\ written <=> (c \in DOMAIN uploads /\ uploads[c] = 1)
                      /\ ~written <=> c \notin DOMAIN uploads

\* C3 witness: the gNumFrameResources-th update has just ended and every
\* slot holds the constants of every item.
C3_Witness ==
    /\ pc = "Draw"
    /\ UpdatesDone = gNumFrameResources
    /\ \A s \in Slots : \A k \in DOMAIN mAllRitems :
          RecordAt(mFrameResources[s].ObjectCB, mAllRitems[k].ObjCBIndex)
              = ObjectConstants(app, mAllRitems[k])

\* The water material and its record in ring slot s.
WaterMat == mMaterials["water"]

SlotHoldsWater(s) ==
    RecordAt(mFrameResources[s].MaterialCB, WaterMat.MatCBIndex)
        = MaterialConstants(WaterMat)

\* The ring slots the last k frame updates wrote.
RecentSlots(k) ==
    {(mCurrFrameResourceIndex + gNumFrameResources - j) % gNumFrameResources :
        j \in 0..(k - 1)}

\* C5: marking dirty sets NumFramesDirty to gNumFrameResources whatever the
\* count was: after one call of AnimateMaterials or several in a row with
\* no update in between, the count is gNumFrameResources.
C5_MarkDirtySaturates ==
    client.marks > 0 => WaterMat.NumFramesDirty = gNumFrameResources

\* C5 witness: two calls in a row, the first on a count that was neither 0
\* nor gNumFrameResources.
C5_Witness ==
    /\ client.marks = 2
    /\ client.markedAt \in 1..(gNumFrameResources - 1)
    /\ WaterMat.NumFramesDirty = gNumFrameResources

\* C8: an item (or material) whose dirty-count was set to
\* gNumFrameResources and that is not modified again has the count
\* decremented once by each frame update: gNumFrameResources - k after k
\* updates, 0 after gNumFrameResources updates and 0 from then on.
C8_OneDecrementPerUpdate ==
    /\ \A k \in DOMAIN mAllRitems :
          mAllRitems[k].NumFramesDirty = CountAfter(UpdatesDone)
    /\ \A m \in StaticMaterials :
          mMaterials[m].NumFramesDirty = CountAfter(UpdatesDone)

\* C8 witness: one update past the gNumFrameResources-th, the count of
\* every item is still 0.
C8_Witness ==
    /\ UpdatesDone = gNumFrameResources + 1
    /\ pc = "Draw"
    /\ \A k \in DOMAIN mAllRitems : mAllRitems[k].NumFramesDirty = 0

\* C9: when the material is modified and marked again while its count is
\* above 0, once or twice between two frame updates, no slot misses the
\* latest state: the count is gNumFrameResources less the updates since the
\* last mark, the slots of those updates hold the latest state, and after
\* gNumFrameResources updates without a mark every slot does.
C9_RemarkSkipsNoSlot ==
    LET k == client.sinceMark
    IN  /\ WaterMat.NumFramesDirty = CountAfter(k)
        /\ \A s \in RecentSlots(k) : SlotHoldsWater(s)
        /\ k >= gNumFrameResources => \A s \in Slots : SlotHoldsWater(s)

\* C9 witness: the material was marked twice in one frame, the first time
\* with a count strictly between 0 and gNumFrameResources, its transform
\* was changed, and gNumFrameResources updates later every slot holds it.
C9_Witness ==
    /\ client.burst = 2
    /\ client.markedAt \in 1..(gNumFrameResources - 1)
    /\ client.sinceMark = gNumFrameResources
    /\ MatAt(WaterMat.MatTransform, 3, 0) # 0
    /\ \A s \in Slots : SlotHoldsWater(s)

\* The CopyData calls the latest Update made for material m.
MaterialCopies(m) ==
    CountIn(copyLog, Copy("MaterialCB", mCurrFrameResourceIndex, mMaterials[m].MatCBIndex))

\* C10: UpdateMaterialCBs makes one CopyData call per dirty material and
\* frame, however many render items use the material: a material marked
\* once is copied once into each slot, the water material once a frame.
C10_OneCopyPerMaterial ==
    /\ pc = "Draw" =>
          /\ \A m \in StaticMaterials :
                MaterialCopies(m) = IF UpdatesDone <= gNumFrameResources THEN 1 ELSE 0
          /\ app = "castle" => MaterialCopies("water") = 1
    /\ \A m \in StaticMaterials : \A s \in Slots :
          LET c == Copy("MaterialCB", s, mMaterials[m].MatCBIndex)
          IN  c \in DOMAIN uploads => uploads[c] = 1

\* The render items that use material m.
UsersOf(m) == {k \in DOMAIN mAllRitems : mAllRitems[k].Mat = m}

\* C10 witness: an Update has just copied, once, a dirty material that two
\* render items use.
C10_Witness ==
    /\ pc = "Draw"
    /\ \E m \in StaticMaterials :
          /\ Cardinality(UsersOf(m)) >= 2
          /\ MaterialCopies(m) = 1

\* The command lists recorded so far that are still in the program's state:
\* the one Draw recorded last and those the GPU has not finished.
RecordedLists ==
    (IF mCommandList.alloc \in Slots THEN {mCommandList} ELSE {})
    \cup {mCommandQueue[j].list : j \in Unfinished}

\* The address of the record CopyData(index) writes in upload buffer buf.
WriteAddress(buf, index) == buf.GPUVirtualAddress + ElementOffset(buf, index)

\* C6: the record UpdateObjectCBs writes for a render item in a ring slot
\* (CopyData(ObjCBIndex) on the slot's ObjectCB) is the record a draw of the
\* item recorded for that slot binds: through the descriptor at heap index
\* slot * objCount + ObjCBIndex in the shapes app, at address base +
\* ObjCBIndex * objCBByteSize in the castle app; likewise for the material
\* record at MatCBIndex * matCBByteSize.  What the draw recorded by the
\* latest Draw reads there is what the latest Update computed.
C6_BindPathMatchesWritePath ==
    \A cl \in RecordedLists : \A k \in DOMAIN cl.draws :
        LET d == cl.draws[k]
            ri == mAllRitems[d.ritem]
            fr == mFrameResources[cl.alloc]
            fresh == pc = "Draw_Signal" /\ cl = mCommandList
        IN  /\ ObjCBLocation(app, mCbvHeap, d) = WriteAddress(fr.ObjectCB, ri.ObjCBIndex)
            /\ app = "shapes" =>
                  /\ d.cbvIndex = cl.alloc * Len(mAllRitems) + ri.ObjCBIndex
                  /\ DescriptorAt(mCbvHeap, d.cbvIndex).SizeInBytes
                        = fr.ObjectCB.mElementByteSize
            /\ app = "castle" =>
                  d.matCBAddress
                      = WriteAddress(fr.MaterialCB, mMaterials[ri.Mat].MatCBIndex)
            /\ fresh =>
                  ReadAddress(mFrameResources, ObjCBLocation(app, mCbvHeap, d))
                      = ObjectConstants(app, ri)
            /\ fresh /\ app = "castle" =>
                  ReadAddress(mFrameResources, d.matCBAddress)
                      = MaterialConstants(mMaterials[ri.Mat])

\* C6 witness: Draw has just recorded, for a slot other than 0 that is
\* used for the second time, a draw of the item with the largest ObjCBIndex.
C6_Witness ==
    /\ pc = "Draw_Signal"
    /\ frameCounter > gNumFrameResources
    /\ mCommandList.alloc = mCurrFrameResourceIndex
    /\ mCurrFrameResourceIndex # 0
    /\ \E k \in DOMAIN mCommandList.draws :
          LET d == mCommandList.draws[k]
              ri == mAllRitems[d.ritem]
          IN  /\ ri.ObjCBIndex = Len(mAllRitems) - 1
              /\ ReadAddress(mFrameResources, ObjCBLocation(app, mCbvHeap, d))
                    = ObjectConstants(app, ri)

\* The Signal values the GPU has not reached, in queue order.
QueuedSignals ==
    SelectSeq(mCommandQueue, LAMBDA c : c.type = "signal")

\* C12: a submission in Draw advances mCurrentFence by exactly 1, stamps
\* the current slot's Fence with the new value and enqueues a Signal of that
\* value behind the frame's command list; so the stamps grow strictly in
\* submission order, no two slots hold the same stamp other than 0, and the
\* completed value never exceeds mCurrentFence.
C12_FenceStampsIncrease ==
    /\ [][mCurrentFence' # mCurrentFence =>
            /\ pc = "Draw_Signal"
            /\ mCommandList.alloc = mCurrFrameResourceIndex
            /\ mCurrentFence' = mCurrentFence + 1
            /\ mFrameResources'[mCurrFrameResourceIndex].Fence = mCurrentFence'
            /\ \A s \in Slots : mFrameResources[s].Fence < mCurrentFence'
            /\ mCommandQueue' # <<>>
            /\ mCommandQueue'[Len(mCommandQueue')]
                  = [type |-> "signal", value |-> mCurrentFence']
            /\ \A j \in DOMAIN mCommandQueue : mCommandQueue'[j] = mCommandQueue[j]]_vars
    /\ [](/\ mFence <= mCurrentFence
          /\ \A s, t \in Slots :
                s # t /\ mFrameResources[s].Fence # 0
                    => mFrameResources[s].Fence # mFrameResources[t].Fence
          /\ \A s \in Slots : mFrameResources[s].Fence <= mCurrentFence
          /\ \A j \in DOMAIN QueuedSignals :
                /\ QueuedSignals[j].value > mFence
                /\ j > 1 => QueuedSignals[j].value = QueuedSignals[j - 1].value + 1
          /\ \A j \in DOMAIN mCommandQueue :
                mCommandQueue[j].type = "execute" =>
                    IF j < Len(mCommandQueue)
                    THEN mCommandQueue[j + 1].type = "signal"
                    ELSE pc = "Draw_Signal")

\* C12 witness: every slot has been stamped, with three different values,
\* and two Signals are still in the queue.
C12_Witness ==
    /\ \A s \in Slots : mFrameResources[s].Fence # 0
    /\ Cardinality({mFrameResources[s].Fence : s \in Slots}) = gNumFrameResources
    /\ Len(QueuedSignals) >= 2
    /\ pc = "Run"

\* C13: the ring slot a frame uses is the number of frames started so far
\* (this frame included) modulo gNumFrameResources.
C13_SlotIsFrameCounterModN ==
    mCurrFrameResourceIndex = frameCounter % gNumFrameResources

\* C13 witness: the ring has wrapped around and a frame is recording.
C13_Witness ==
    /\ frameCounter = 2 * gNumFrameResources
    /\ pc = "Draw"
    /\ mCurrFrameResourceIndex = 0

\* The ring slots whose ObjectCB holds address addr.
ObjectCBSlotsOf(addr) ==
    {s \in Slots : InBuffer(mFrameResources[s].ObjectCB, addr)}

\* C18: DrawRenderItems records one indexed draw per item of the list, in
\* list order, with the item's IndexCount, StartIndexLocation and
\* BaseVertexLocation, bound to the item's own record of the ObjectCB of
\* the slot the list is recorded for: no other slot's buffer, no other
\* item's record.
C18_OneDrawPerItem ==
    \A cl \in RecordedLists :
        /\ pc = "Draw_Signal" /\ cl = mCommandList
              => cl.alloc = mCurrFrameResourceIndex
        /\ Len(cl.draws) = Len(mAllRitems)
        /\ \A k \in DOMAIN cl.draws :
              LET d == cl.draws[k]
                  ri == mAllRitems[k]
                  addr == ObjCBLocation(app, mCbvHeap, d)
              IN  /\ d.ritem = k
                  /\ d.IndexCountPerInstance = ri.IndexCount
                  /\ d.StartIndexLocation = ri.StartIndexLocation
                  /\ d.BaseVertexLocation = ri.BaseVertexLocation
                  /\ ObjectCBSlotsOf(addr) = {cl.alloc}
                  /\ addr = WriteAddress(mFrameResources[cl.alloc].ObjectCB,
                                         ri.ObjCBIndex)
                  /\ \A j \in DOMAIN cl.draws :
                        j # k => ObjCBLocation(app, mCbvHeap, cl.draws[j]) # addr

\* C18 witness: Draw has just recorded the draws of all items for slot 2,
\* while a list recorded for slot 1 is still unfinished.
C18_Witness ==
    /\ pc = "Draw_Signal"
    /\ mCommandList.alloc = 2
    /\ Len(mCommandList.draws) = NumRitems
    /\ \E j \in Unfinished : mCommandQueue[j].list.alloc = 1

\* The CopyData calls of the latest Update into a PassCB.
PassCopies == SelectSeq(copyLog, LAMBDA c : c.buffer = "PassCB")

\* The finished frame updates that used ring slot s.
UpdatesOfSlot(s) ==
    Cardinality({f \in 1..UpdatesDone : f % gNumFrameResources = s})

\* C19: every Update writes the pass constants once, dirty or not, into
\* record 0 of the PassCB of the current slot, and the pass binding of a
\* recorded command list is the PassCB of the slot the list was recorded
\* for (heap index mPassCbvOffset + mCurrFrameResourceIndex in the shapes
\* app, the frame resource's PassCB address in the castle app).
C19_PassConstantsEveryFrame ==
    /\ pc \in {"Draw", "Draw_Signal"} =>
          /\ PassCopies = <<Copy("PassCB", mCurrFrameResourceIndex, 0)>>
          /\ RecordAt(mCurrFrameResource.PassCB, 0) = PassConstants(mTimer)
    /\ \A s \in Slots :
          LET c == Copy("PassCB", s, 0)
          IN  (IF c \in DOMAIN uploads THEN uploads[c] ELSE 0) = UpdatesOfSlot(s)
    /\ \A c \in DOMAIN uploads : c.buffer = "PassCB" => c.index = 0
    /\ \A cl \in RecordedLists :
          /\ PassCBLocation(app, mCbvHeap, cl)
                = WriteAddress(mFrameResources[cl.alloc].PassCB, 0)
          /\ app = "shapes" =>
                cl.passCbvIndex = gNumFrameResources * Len(mAllRitems) + cl.alloc
          /\ pc = "Draw_Signal" /\ cl = mCommandList =>
                /\ cl.alloc = mCurrFrameResourceIndex
                /\ ReadAddress(mFrameResources, PassCBLocation(app, mCbvHeap, cl))
                      = PassConstants(mTimer)

\* C19 witness: all dirty counts are 0, the pass constants of this frame
\* have been written again into the current slot and Draw has bound them.
C19_Witness ==
    /\ pc = "Draw_Signal"
    /\ frameCounter > gNumFrameResources + 1
    /\ \A k \in DOMAIN mAllRitems : mAllRitems[k].NumFramesDirty = 0
    /\ mTimer.DeltaTime # 0
    /\ uploads[Copy("PassCB", mCurrFrameResourceIndex, 0)] = 2
    /\ ReadAddress(mFrameResources, PassCBLocation(app, mCbvHeap, mCommandList))
          = PassConstants(mTimer)

\* The unfinished command lists recorded with the allocator of ring slot s.
UnfinishedOf(s) == {j \in Unfinished : mCommandQueue[j].list.alloc = s}

\* C20: when Draw resets the command allocator of the current slot, every
\* command list recorded with that allocator has finished on the GPU: the
\* slot's Fence is 0 or the completed value has reached it, and the queue
\* holds no list of that allocator.
C20_AllocatorResetAfterFence ==
    /\ [](pc = "Draw" =>
            /\ \/ mCurrFrameResource.Fence = 0
               \/ mFence >= mCurrFrameResource.Fence
            /\ UnfinishedOf(mCurrFrameResourceIndex) = {})
    /\ [][mCommandList' # mCommandList =>
            /\ pc = "Draw"
            /\ mCommandList'.alloc = mCurrFrameResourceIndex
            /\ pc' = "Draw_Signal"]_vars

\* C20 witness: Draw is about to reset the allocator of a slot that was
\* submitted before, whose Fence has just been reached, while lists of the
\* other slots are unfinished.
C20_Witness ==
    /\ pc = "Draw"
    /\ mCurrFrameResource.Fence # 0
    /\ mFence = mCurrFrameResource.Fence
    /\ mCommandList.alloc # mCurrFrameResourceIndex
    /\ Unfinished # {}

\* C11: Update waits only when needed.  The step that selects the slot
\* goes into the wait if and only if the slot was submitted before (Fence
\* other than 0) and the completed value is below the slot's Fence;
\* otherwise it goes straight on to the constant updates.
C11_WaitsIffSlotBusy ==
    /\ [][pc = "Run" /\ pc' # "Run" =>
            LET v == mFrameResources[mCurrFrameResourceIndex'].Fence
                busy == v # 0 /\ mFence < v
            IN  /\ busy => pc' = "Update_Wait" /\ waited'
                /\ ~busy => pc' = "Update_CBs" /\ ~waited']_vars
    /\ [](pc = "Update_Wait" => waited /\ mCurrFrameResource.Fence # 0)

\* C11 witness: the loop has wrapped around to a slot whose Fence was
\* already reached, and Update went on without waiting although other
\* frames are still outstanding.
C11_Witness ==
    /\ pc = "Update_CBs"
    /\ ~waited
    /\ frameCounter > gNumFrameResources
    /\ mCurrFrameResource.Fence # 0
    /\ mFence >= mCurrFrameResource.Fence
    /\ mCurrentFence > mFence

\* C15: in a frame the wait of Update is the only place where the CPU
\* thread can be held up. Between frames the next Update can begin; after
\* the fence check the constant writes go through (UpdateCBs has no guard
\* but the thread's position, and no CopyData of it fails); recording with
\* ExecuteCommandLists and Present, and the fence stamp with Signal, can be
\* taken whatever the GPU has finished. In the wait the thread goes on as
\* soon as the fence has reached the slot's Fence; while it has not, the
\* thread waited by its own fence check, the GPU still has work that will
\* raise the fence, and the thread is in no error state.
C15_OnlyBlockingPointIsTheWait ==
    /\ pc = "Run" /\ frameCounter < MaxFrames => ENABLED UpdateBegin
    /\ pc = "Update_CBs" =>
          ~UpdateBuffers(app, mCurrFrameResourceIndex, mCurrFrameResource,
                         mAllRitems, mMaterials, mTimer, mWaves).error
    /\ pc = "Draw" => ENABLED DrawExecute
    /\ pc = "Draw_Signal" => ENABLED DrawSignal
    /\ pc = "Update_Wait" => (ENABLED UpdateWait <=> ~Blocked)
    /\ Blocked => waited /\ ENABLED (GpuExecute \/ GpuSignal)
    /\ pc \in {"Run", "Update_Wait", "Update_CBs", "Draw", "Draw_Signal"}

\* The CPU records and submits a frame while the GPU has all the other
\* slots' frames still queued.
C15_Witness ==
    /\ pc = "Draw"
    /\ frameCounter > gNumFrameResources
    /\ Len(mCommandQueue) >= 2 * (gNumFrameResources - 1)
    /\ ENABLED DrawExecute

\* ------------------------------------------- capacity of the ObjectCB

\* "UINT ObjCBIndex = -1": the index of a render item that was given none,
\* the largest UINT (2^32 - 1). TLC's integers end at 2^31 - 1, which stands
\* for it here: what matters of the value is that no capacity exceeds it.
DefaultObjCBIndex == 2147483647

\* The scenes Update can meet: the one BuildRenderItems makes; that scene
\* with one item left at the default ObjCBIndex; and that scene with an item
\* pushed to mAllRitems, with the next cbindex, after BuildFrameResources.
RitemsAfterBuild(a) ==
    LET built == BuildRenderItems(a)
        all == IF a = "castle" THEN CastleRitems ELSE ShapesRitems
    IN  {built}
          \cup {[built EXCEPT ![k].ObjCBIndex = DefaultObjCBIndex] : k \in 1..Len(built)}
          \cup {Append(built, all[Len(built) + 1])}

\* As Init, with the ring and the heap sized to the items BuildRenderItems
\* made, and mAllRitems one of the scenes above.
CapacityInit ==
    /\ app \in Apps
    /\ pc = "Run"
    /\ mCurrFrameResourceIndex = 0
    /\ mAllRitems \in RitemsAfterBuild(app)
    /\ mMaterials = BuildMaterials(app)
    /\ mFrameResources = BuildFrameResources(app, BuildRenderItems(app), mMaterials)
    /\ mCbvHeap = BuildConstantBufferViews(app, mFrameResources,
                                           Len(BuildRenderItems(app)))
    /\ mCurrentFence \in 0..MaxInitFence
    /\ mFence = mCurrentFence
    /\ mCommandQueue = <<>>
    /\ mCommandList = [alloc |-> -1, draws |-> <<>>]
    /\ mTimer = [TotalTime |-> 0, DeltaTime |-> 0]
    /\ mWaves = 0
    /\ mWavesVertexBufferGPU = 0
    /\ frameCounter = 0
    /\ copyLog = <<>>
    /\ uploads = <<>>
    /\ client = [marks |-> 0, burst |-> 0, markedAt |-> -1, sinceMark |-> 0]
    /\ waited = FALSE
    /\ md3dDevice = TRUE
    /\ initResult = "ok"

CapacitySpec == CapacityInit /\ [][Next]_vars

\* The render items whose ObjCBIndex is not below the capacity of the
\* ObjectCB of the frame resources.
OutOfRange ==
    {k \in 1..Len(mAllRitems) :
        CopyFails(mFrameResources[0].ObjectCB, mAllRitems[k].ObjCBIndex)}

LifeInit ==
    /\ app \in Apps
    /\ pc = "WinMain"
    /\ mCurrFrameResourceIndex = 0
    /\ mAllRitems = <<>>
    /\ mMaterials = <<>>
    /\ mFrameResources = <<>>
    /\ mCbvHeap = <<>>
    /\ mCurrentFence = 0
    /\ mFence = 0
    /\ mCommandQueue = <<>>
    /\ mCommandList = [alloc |-> -1, draws |-> <<>>]
    /\ mTimer = [TotalTime |-> 0, DeltaTime |-> 0]
    /\ mWaves = 0
    /\ mWavesVertexBufferGPU = 0
    /\ frameCounter = 0
    /\ copyLog = <<>>
    /\ uploads = <<>>
    /\ client = [marks |-> 0, burst |-> 0, markedAt |-> -1, sinceMark |-> 0]
    /\ waited = FALSE
    /\ md3dDevice = FALSE
    /\ initResult = "none"

\* Mutant of RunsAfter: Run is called whatever Initialize returned.
RunsAfter_Always(initialized) == TRUE

\* WinMain: "if(!theApp.Initialize()) return 0; return theApp.Run();"
RunsAfter(initialized) == initialized

\* WinMain's call of Initialize. It returns true with the device created,
\* everything built and the queue flushed; or D3DApp::Initialize returns
\* false, before any Build step; or a ThrowIfFailed throws, in
\* D3DApp::Initialize (with or without a device) or in a Build step (with
\* the device, before or after BuildFrameResources). A failure comes before
\* the initialization commands are executed. After a return WinMain calls
\* Run or returns; a throw leaves the try block. Either way of not running
\* destroys theApp.
Initialize ==
    /\ pc = "WinMain"
    /\ \E result \in {"ok", "false", "throw"}, device \in BOOLEAN, built \in BOOLEAN,
          f \in 0..MaxInitFence :
          /\ result = "ok" => device /\ built
          /\ result = "false" => ~built
          /\ built => device
          /\ result # "ok" => f = 0
          /\ initResult' = result
          /\ md3dDevice' = device
          /\ mAllRitems' = IF built THEN BuildRenderItems(app) ELSE <<>>
          /\ mMaterials' = IF built THEN BuildMaterials(app) ELSE <<>>
          /\ mFrameResources' =
                IF built THEN BuildFrameResources(app, mAllRitems', mMaterials') ELSE <<>>
          /\ mCbvHeap' =
                IF built
                THEN BuildConstantBufferViews(app, mFrameResources', Len(mAllRitems'))
                ELSE <<>>
          /\ mCurrentFence' = f
          /\ mFence' = f
          /\ pc' = IF result = "throw" THEN "Destruct"
                   ELSE IF RunsAfter(result = "ok") THEN "Run"
                   ELSE "Destruct"
    /\ UNCHANGED << app, mCurrFrameResourceIndex, mCommandQueue, mCommandList, mTimer,
                    mWaves, mWavesVertexBufferGPU, frameCounter, copyLog, uploads,
                    client, waited >>

\* Run returns (WM_QUIT, between two frames), or a ThrowIfFailed of Draw
\* throws: theApp goes out of scope.
LeaveRun ==
    /\ pc \in {"Run", "Draw", "Draw_Signal"}
    /\ pc' = "Destruct"
    /\ UNCHANGED << app, mCurrFrameResourceIndex, mFrameResources, mCurrentFence,
                    mFence, mCommandQueue, mCommandList, mAllRitems, mMaterials,
                    mTimer, mWaves, mWavesVertexBufferGPU, mCbvHeap, frameCounter,
                    copyLog, uploads, client, waited, md3dDevice, initResult >>

\* Mutant of MustFlush: the destructor does not flush.
MustFlush_Never(device) == FALSE

\* The destructor: "if(md3dDevice != nullptr) FlushCommandQueue();"
MustFlush(device) == device

\* D3DApp::FlushCommandQueue up to its wait: the fence counter advances and
\* a Signal of the new value is queued behind everything submitted.
FlushCommandQueue(currentFence, queue) ==
    [ fence |-> currentFence + 1,
      queue |-> Append(queue, [type |-> "signal", value |-> currentFence + 1]) ]

\* The body of the destructor, up to the wait of FlushCommandQueue.
Destructor ==
    /\ pc = "Destruct"
    /\ IF MustFlush(md3dDevice)
       THEN LET flush == FlushCommandQueue(mCurrentFence, mCommandQueue)
            IN  /\ mCurrentFence' = flush.fence
                /\ mCommandQueue' = flush.queue
                /\ pc' = "Flush_Wait"
       ELSE /\ pc' = "Release"
            /\ UNCHANGED << mCurrentFence, mCommandQueue >>
    /\ UNCHANGED << app, mCurrFrameResourceIndex, mFrameResources, mFence,
                    mCommandList, mAllRitems, mMaterials, mTimer, mWaves,
                    mWavesVertexBufferGPU, mCbvHeap, frameCounter, copyLog, uploads,
                    client, waited, md3dDevice, initResult >>

\* The wait of FlushCommandQueue ends when the fence has reached
\* mCurrentFence.
FlushWait ==
    /\ pc = "Flush_Wait"
    /\ mFence >= mCurrentFence
    /\ pc' = "Release"
    /\ UNCHANGED << app, mCurrFrameResourceIndex, mFrameResources, mCurrentFence,
                    mFence, mCommandQueue, mCommandList, mAllRitems, mMaterials,
                    mTimer, mWaves, mWavesVertexBufferGPU, mCbvHeap, frameCounter,
                    copyLog, uploads, client, waited, md3dDevice, initResult >>

\* After the destructor's body the members are destroyed: mFrameResources
\* releases the frame resources, their allocators and upload buffers.
Release ==
    /\ pc = "Release"
    /\ mFrameResources' = <<>>
    /\ pc' = "Exit"
    /\ UNCHANGED << app, mCurrFrameResourceIndex, mCurrentFence, mFence,
                    mCommandQueue, mCommandList, mAllRitems, mMaterials, mTimer,
                    mWaves, mWavesVertexBufferGPU, mCbvHeap, frameCounter, copyLog,
                    uploads, client, waited, md3dDevice, initResult >>

LifeNext ==
    \/ Initialize
    \/ LeaveRun
    \/ Destructor
    \/ FlushWait
    \/ Release
    \/ Next

LifeSpec == LifeInit /\ [][LifeNext]_vars

\* C16: a failed set-up is final. Initialize is called once: its result,
\* once there, stays, and the program never comes back to the call. When it
\* returned false or a Build step threw, Run is not called: no frame is
\* started and nothing is submitted for drawing, then or later; the program
\* only destroys theApp and ends.
C16_FailedSetupNeverRuns ==
    [][ /\ initResult # "none" => initResult' = initResult /\ pc # "WinMain"
        /\ pc' = "WinMain" => pc = "WinMain" /\ initResult' = "none"
        /\ initResult' \in {"false", "throw"} =>
              /\ pc' \in {"Destruct", "Flush_Wait", "Release", "Exit"}
              /\ frameCounter' = 0
              /\ copyLog' = <<>>
              /\ mCommandList' = [alloc |-> -1, draws |-> <<>>]
              /\ \A i \in 1..Len(mCommandQueue') : mCommandQueue'[i].type = "signal"
      ]_vars

\* A Build step threw after the device was created, and the program has
\* ended without a frame.
C16_Witness ==
    /\ initResult = "throw"
    /\ md3dDevice
    /\ pc = "Exit"
    /\ frameCounter = 0

\* C17: the frame resources are released only when the GPU has finished
\* everything submitted. With a device the destructor has flushed: at the
\* release the queue is empty and the fence has reached mCurrentFence and
\* with it the Fence of every slot. Without a device nothing was ever
\* submitted. After the release the GPU has nothing left to execute.
C17_ReleaseAfterFlush ==
    [][ /\ pc = "Release" /\ pc' = "Exit" =>
              /\ mCommandQueue = <<>>
              /\ md3dDevice => mFence = mCurrentFence
              /\ \A s \in DOMAIN mFrameResources : mFrameResources[s].Fence <= mFence
        /\ pc' = "Exit" => mCommandQueue' = <<>> /\ mFrameResources' = <<>>
        /\ ~md3dDevice' => mCommandQueue' = <<>>
      ]_vars

\* The program has ended after frames on every slot: the destructor flushed
\* and the ring is released.
C17_Witness ==
    /\ pc = "Exit"
    /\ initResult = "ok"
    /\ md3dDevice
    /\ frameCounter > gNumFrameResources
    /\ mFrameResources = <<>>
    /\ mFence = mCurrentFence
    /\ mCurrentFence > frameCounter

\* ------------------------------------------------------- ring and counts

\* C23: the ring index starts at 0 and stays in 0..gNumFrameResources-1;
\* the start of every Update, and nothing else, changes it, to the index
\* after it modulo gNumFrameResources; the first frame uses slot 1 when
\* there is more than one slot; and the frames of any gNumFrameResources
\* consecutive Updates, each on the slot of its number, use every slot once.
C23_RingAdvanceIsRoundRobin ==
    [][ /\ frameCounter = 0 => mCurrFrameResourceIndex = 0
        /\ mCurrFrameResourceIndex' \in Slots
        /\ frameCounter' # frameCounter =>
              /\ pc = "Run" /\ frameCounter' = frameCounter + 1
              /\ mCurrFrameResourceIndex' =
                    (mCurrFrameResourceIndex + 1) % gNumFrameResources
        /\ frameCounter' = frameCounter =>
              mCurrFrameResourceIndex' = mCurrFrameResourceIndex
        /\ frameCounter' = 1 /\ gNumFrameResources > 1 => mCurrFrameResourceIndex' = 1
        /\ mCurrFrameResourceIndex' = frameCounter' % gNumFrameResources
        /\ \A f0 \in 0..(frameCounter' - gNumFrameResources) :
              LET window == (f0 + 1)..(f0 + gNumFrameResources)
              IN  \A s \in Slots :
                     Cardinality({f \in window : f % gNumFrameResources = s}) = 1
      ]_vars

\* The frame after the ring's first wrap-around is on slot 1 again.
C23_Witness ==
    /\ frameCounter = gNumFrameResources + 1
    /\ mCurrFrameResourceIndex = 1
    /\ pc = "Update_CBs"

\* The dirty-counts of the render items and of the materials.
ItemCount(k) == mAllRitems[k].NumFramesDirty

MaterialCount(m) == mMaterials[m].NumFramesDirty

\* What a step may do to one dirty-count, from before to after: both lie
\* in 0..gNumFrameResources; it goes down only in the constant update of a
\* frame, from above 0 and by one; it goes up only to gNumFrameResources.
CountStepOK(before, after, inUpdate) ==
    /\ before \in 0..gNumFrameResources
    /\ after \in 0..gNumFrameResources
    /\ after < before => inUpdate /\ before > 0 /\ after = before - 1
    /\ after > before => after = gNumFrameResources

\* C27: every dirty-count of a render item or a material is in
\* 0..gNumFrameResources in every state: gNumFrameResources before the first
\* frame; lowered only by a frame's constant update, only from above 0 and
\* by one per frame; raised only to gNumFrameResources.
C27_DirtyCountInRange ==
    [][ /\ frameCounter = 0 =>
              /\ \A k \in DOMAIN mAllRitems : ItemCount(k) = gNumFrameResources
              /\ \A m \in DOMAIN mMaterials : MaterialCount(m) = gNumFrameResources
        /\ DOMAIN mAllRitems' = DOMAIN mAllRitems
        /\ DOMAIN mMaterials' = DOMAIN mMaterials
        /\ \A k \in DOMAIN mAllRitems :
              CountStepOK(ItemCount(k), ItemCount(k)', pc = "Update_CBs")
        /\ \A m \in DOMAIN mMaterials :
              CountStepOK(MaterialCount(m), MaterialCount(m)', pc = "Update_CBs")
      ]_vars

\* Every item's count has come down to 0 and stayed there through another
\* frame, while the water material's count is above 0 again.
C27_Witness ==
    /\ app = "castle"
    /\ frameCounter > gNumFrameResources + 1
    /\ pc = "Draw"
    /\ \A k \in DOMAIN mAllRitems : ItemCount(k) = 0
    /\ MaterialCount("water") > 0

\* The upload regions of frame resource fr: where each lies and what it
\* holds.
UploadRegions(fr) == [kind \in BufferKinds |-> fr[kind]]

\* C24: the constant update of a frame writes upload regions of the
\* current ring slot only. Every CopyData call of it is made for the
\* current slot; the regions of the other slots are as they were; the
\* regions of the current slot stay where they are, with the same records,
\* and hold the frame's pass constants afterwards. No other step of the
\* frame loop or of the GPU writes any upload region.
C24_OnlyCurrentSlotWritten ==
    [][ /\ pc = "Update_CBs" /\ pc' # pc =>
              /\ mCurrFrameResourceIndex' = mCurrFrameResourceIndex
              /\ \A i \in DOMAIN copyLog' : copyLog'[i].slot = mCurrFrameResourceIndex
              /\ \A s \in Slots \ {mCurrFrameResourceIndex} :
                    UploadRegions(mFrameResources'[s]) = UploadRegions(mFrameResources[s])
              /\ \A kind \in BufferKinds :
                    LET old == mFrameResources[mCurrFrameResourceIndex][kind]
                        new == mFrameResources'[mCurrFrameResourceIndex][kind]
                    IN  /\ new.GPUVirtualAddress = old.GPUVirtualAddress
                        /\ new.mElementByteSize = old.mElementByteSize
                        /\ DOMAIN new.mMappedData = DOMAIN old.mMappedData
              /\ RecordAt(mFrameResources'[mCurrFrameResourceIndex].PassCB, 0)
                    = PassConstants(mTimer)
        /\ pc # "Update_CBs" \/ pc' = pc =>
              \A s \in Slots :
                  UploadRegions(mFrameResources'[s]) = UploadRegions(mFrameResources[s])
      ]_vars

\* The update of a frame has written the current slot while the other
\* slots hold the records of earlier frames, one of them with pass
\* constants of another time.
C24_Witness ==
    /\ pc = "Draw"
    /\ frameCounter > gNumFrameResources
    /\ copyLog # <<>>
    /\ \A s \in Slots : RecordAt(mFrameResources[s].PassCB, 0) # Uninit
    /\ \E s \in Slots \ {mCurrFrameResourceIndex} :
          RecordAt(mFrameResources[s].PassCB, 0) # RecordAt(mCurrFrameResource.PassCB, 0)

\* C25: DrawRenderItems only adds commands to the command list. The step
\* of Draw that calls it leaves the list with one draw per item, those
\* DrawRenderItems yields for the items, the materials and the current
\* frame resource as they are, and changes none of them: every item and
\* material (dirty-counts and indices included), every frame resource
\* (upload regions and Fence), the ring index, mCurrentFence and the
\* descriptor heap are as before.
C25_DrawRenderItemsOnlyRecords ==
    [][ pc = "Draw" /\ pc' # pc =>
          /\ mCommandList'.draws =
                DrawRenderItems(app, mAllRitems, mCurrFrameResourceIndex,
                                mFrameResources[mCurrFrameResourceIndex], mMaterials,
                                mWavesVertexBufferGPU)
          /\ Len(mCommandList'.draws) = Len(mAllRitems)
          /\ mAllRitems' = mAllRitems
          /\ mMaterials' = mMaterials
          /\ mFrameResources' = mFrameResources
          /\ mCurrFrameResourceIndex' = mCurrFrameResourceIndex
          /\ mCurrentFence' = mCurrentFence
          /\ mCbvHeap' = mCbvHeap
          /\ uploads' = uploads
      ]_vars

\* Draw has recorded the draws of a frame in which the items are still
\* dirty for another slot.
C25_Witness ==
    /\ pc = "Draw_Signal"
    /\ frameCounter = 2
    /\ Len(mCommandList.draws) = Len(mAllRitems)
    /\ \A k \in DOMAIN mAllRitems : ItemCount(k) = gNumFrameResources - 2
    /\ \E s \in Slots : mFrameResources[s].Fence # 0

\* ------------------------------------------- shapes app: heap layout

\* The heap indices BuildConstantBufferViews gives the object CBVs and the
\* pass CBVs for objCount objects.
ObjectCbvIndices(objCount) ==
    {ObjectCbvHeapIndex(f, objCount, i) : f \in Slots, i \in 0..(objCount - 1)}

PassCbvIndices(objCount) ==
    {PassCbvHeapIndex(PassCbvOffset(objCount), f) : f \in Slots}

\* The layout of heap, built for objCount objects over the frame resources
\* frs: (objCount + 1) * gNumFrameResources descriptors; the object CBV of
\* slot f and item i at f * objCount + i, below the pass offset
\* objCount * gNumFrameResources, a different index for a different (f, i),
\* and pointing at record i of the ObjectCB of slot f; the pass CBV of slot
\* f at the offset plus f, within the heap, pointing at the PassCB of slot
\* f; and no descriptor left over.
HeapLayoutOK(heap, frs, objCount) ==
    /\ DOMAIN heap = 0..((objCount + 1) * gNumFrameResources - 1)
    /\ PassCbvOffset(objCount) = objCount * gNumFrameResources
    /\ \A f \in Slots, i \in 0..(objCount - 1) :
          LET h == ObjectCbvHeapIndex(f, objCount, i)
          IN  /\ h = f * objCount + i
              /\ h \in 0..(PassCbvOffset(objCount) - 1)
              /\ heap[h].BufferLocation = WriteAddress(frs[f].ObjectCB, i)
              /\ \A g \in Slots, j \in 0..(objCount - 1) :
                    ObjectCbvHeapIndex(g, objCount, j) = h => g = f /\ j = i
    /\ \A f \in Slots :
          LET h == PassCbvHeapIndex(PassCbvOffset(objCount), f)
          IN  /\ h = PassCbvOffset(objCount) + f
              /\ h \in DOMAIN heap
              /\ heap[h].BufferLocation = WriteAddress(frs[f].PassCB, 0)
    /\ ObjectCbvIndices(objCount) \cap PassCbvIndices(objCount) = {}
    /\ ObjectCbvIndices(objCount) \cup PassCbvIndices(objCount) = DOMAIN heap

\* The heap BuildConstantBufferViews makes for a scene of objCount items.
HeapFor(objCount) ==
    LET ritems == SubSeq(ShapesRitems, 1, objCount)
        frs == BuildFrameResources("shapes", ritems, <<>>)
    IN  [heap |-> BuildConstantBufferViews("shapes", frs, objCount), frs |-> frs]

\* C30: the CBV heap of the shapes app is laid out without collisions and
\* within bounds, for the scene of the run and for every scene of
\* 1..Len(ShapesRitems) items, and every heap index Draw and DrawRenderItems
\* use is the pass index of the list's slot or the object index of the
\* list's slot and the item drawn.
C30_HeapLayoutCollisionFree ==
    app = "shapes" =>
        /\ HeapLayoutOK(mCbvHeap, mFrameResources, Len(mAllRitems))
        /\ frameCounter = 0 =>
              \A objCount \in 1..Len(ShapesRitems) :
                  HeapLayoutOK(HeapFor(objCount).heap, HeapFor(objCount).frs, objCount)
        /\ \A cl \in RecordedLists :
              /\ cl.passCbvIndex =
                    PassCbvHeapIndex(PassCbvOffset(Len(mAllRitems)), cl.alloc)
              /\ cl.passCbvIndex \in DOMAIN mCbvHeap
              /\ \A k \in DOMAIN cl.draws :
                    /\ cl.draws[k].cbvIndex =
                          ObjectCbvHeapIndex(cl.alloc, Len(mAllRitems),
                                             mAllRitems[cl.draws[k].ritem].ObjCBIndex)
                    /\ cl.draws[k].cbvIndex \in ObjectCbvIndices(Len(mAllRitems))

\* The shapes app has recorded a frame on the last ring slot: its pass CBV
\* is the last descriptor of the heap.
C30_Witness ==
    /\ app = "shapes"
    /\ pc = "Draw_Signal"
    /\ mCurrFrameResourceIndex = gNumFrameResources - 1
    /\ mCommandList.passCbvIndex = NumDescriptors(Len(mAllRitems)) - 1
    /\ mCommandList.passCbvIndex \in DOMAIN mCbvHeap
    /\ \E k \in DOMAIN mCommandList.draws :
          mCommandList.draws[k].cbvIndex = PassCbvOffset(Len(mAllRitems)) - 1

\* ---------------------------------------------------- constant indices

\* The ObjCBIndex of the render items and the MatCBIndex of the materials.
ObjCBIndices == {mAllRitems[k].ObjCBIndex : k \in DOMAIN mAllRitems}

MatCBIndices == {mMaterials[m].MatCBIndex : m \in DOMAIN mMaterials}

\* C28: the object indices are 0, 1, ..., n-1 in creation order, one per
\* item; every ring slot's ObjectCB holds n = mAllRitems.size() records and
\* its MaterialCB mMaterials.size() records, which covers every MatCBIndex,
\* one per material; no step changes an index or the number of items or
\* materials; and every CopyData of a frame is at an index below the
\* capacity of the region it writes.
C28_IndicesDenseAndInCapacity ==
    [][ /\ \A k \in DOMAIN mAllRitems : mAllRitems[k].ObjCBIndex = k - 1
        /\ ObjCBIndices = 0..(Len(mAllRitems) - 1)
        /\ Cardinality(MatCBIndices) = Cardinality(DOMAIN mMaterials)
        /\ \A s \in Slots :
              /\ Capacity(mFrameResources[s].ObjectCB) = Len(mAllRitems)
              /\ Capacity(mFrameResources[s].MaterialCB) = Cardinality(DOMAIN mMaterials)
              /\ \A i \in MatCBIndices :
                    i \in 0..(Capacity(mFrameResources[s].MaterialCB) - 1)
        /\ Len(mAllRitems') = Len(mAllRitems)
        /\ DOMAIN mMaterials' = DOMAIN mMaterials
        /\ \A k \in DOMAIN mAllRitems :
              mAllRitems'[k].ObjCBIndex = mAllRitems[k].ObjCBIndex
        /\ \A m \in DOMAIN mMaterials :
              mMaterials'[m].MatCBIndex = mMaterials[m].MatCBIndex
        /\ \A s \in Slots, kind \in BufferKinds :
              Capacity(mFrameResources'[s][kind]) = Capacity(mFrameResources[s][kind])
        /\ \A i \in DOMAIN copyLog' :
              LET c == copyLog'[i]
              IN  c.index \in 0..(Capacity(mFrameResources[c.slot][c.buffer]) - 1)
        /\ pc' # "Failed"
      ]_vars

\* The first Update has written the constants of every item, the one with
\* the highest index into the last record of the ObjectCB.
C28_Witness ==
    /\ pc = "Draw"
    /\ frameCounter = 1
    /\ \E i \in DOMAIN copyLog :
          copyLog[i] = Copy("ObjectCB", mCurrFrameResourceIndex,
                            Capacity(mCurrFrameResource.ObjectCB) - 1)
    /\ Cardinality({i \in DOMAIN copyLog : copyLog[i].buffer = "ObjectCB"})
          = Len(mAllRitems)

\* The number of uploads made so far of material m into ring slot s.
MaterialUploads(m, s) ==
    LET c == Copy("MaterialCB", s, mMaterials[m].MatCBIndex)
    IN  IF c \in DOMAIN uploads THEN uploads[c] ELSE 0

\* C29: in the castle app the water material is never clean. Its
\* dirty-count is gNumFrameResources before the first Update and
\* gNumFrameResources - 1 after every Update, so never 0; every Update
\* uploads it once, into the current ring slot, which then holds its
\* latest state: slot s has as many uploads of it as it had Updates. Every
\* other material is uploaded once into each slot in the first
\* gNumFrameResources frames, has dirty-count 0 from then on, and no later
\* Update uploads it.
C29_WaterMaterialNeverClean ==
    app = "castle" =>
        /\ MaterialCount("water") =
              IF UpdatesDone = 0 THEN gNumFrameResources ELSE gNumFrameResources - 1
        /\ \A s \in Slots : MaterialUploads("water", s) = UpdatesOfSlot(s)
        /\ pc \in {"Draw", "Draw_Signal"} =>
              /\ MaterialCopies("water") = 1
              /\ \A i \in DOMAIN copyLog : copyLog[i].slot = mCurrFrameResourceIndex
              /\ SlotHoldsWater(mCurrFrameResourceIndex)
        /\ \A m \in StaticMaterials :
              /\ UpdatesDone >= gNumFrameResources => MaterialCount(m) = 0
              /\ \A s \in Slots :
                    MaterialUploads(m, s) = IF UpdatesOfSlot(s) > 0 THEN 1 ELSE 0
              /\ UpdatesDone > gNumFrameResources /\ pc \in {"Draw", "Draw_Signal"} =>
                    MaterialCopies(m) = 0

\* After twice round the ring, the water material has been uploaded a
\* second time into each slot, with a texture offset that has moved on,
\* and nothing else was uploaded into the MaterialCB of this frame.
C29_Witness ==
    /\ app = "castle"
    /\ pc = "Draw"
    /\ frameCounter = 2 * gNumFrameResources
    /\ \A s \in Slots : MaterialUploads("water", s) = 2
    /\ MaterialCount("water") = gNumFrameResources - 1
    /\ MatAt(WaterMat.MatTransform, 3, 0) # 0
    /\ \A m \in StaticMaterials : MaterialCopies(m) = 0 /\ MaterialCount(m) = 0

\* What the GPU will read for draw d of a command list: the object
\* constants, and in the castle app the material constants.
ObjectConstantsRead(d) ==
    ReadAddress(mFrameResources, ObjCBLocation(app, mCbvHeap, d))

MaterialConstantsRead(d) == ReadAddress(mFrameResources, d.matCBAddress)

\* C26: no draw reads stale or unwritten constants. When Draw has recorded
\* and submitted the frame of ring slot s, every draw of it reads, in slot
\* s, the object constants of its item as the item is after the frame's
\* Update, and in the castle app the constants of the item's material as
\* the material is after that Update, the animated water material
\* included; this holds from the first frame on. A command list still
\* queued reads written records of its own slot: the constants of its
\* items, and of its materials where the material did not change since.
C26_NoStaleOrUnwrittenDraw ==
    /\ pc = "Draw_Signal" =>
          /\ mCommandList.alloc = mCurrFrameResourceIndex
          /\ Len(mCommandList.draws) = Len(mAllRitems)
          /\ \A k \in DOMAIN mCommandList.draws :
                LET d == mCommandList.draws[k]
                    ri == mAllRitems[d.ritem]
                IN  /\ ObjectConstantsRead(d) = ObjectConstants(app, ri)
                    /\ ObjCBLocation(app, mCbvHeap, d) =
                          WriteAddress(mCurrFrameResource.ObjectCB, ri.ObjCBIndex)
                    /\ app = "castle" =>
                          /\ MaterialConstantsRead(d) = MaterialConstants(mMaterials[ri.Mat])
                          /\ d.matCBAddress =
                                WriteAddress(mCurrFrameResource.MaterialCB,
                                             mMaterials[ri.Mat].MatCBIndex)
    /\ \A cl \in RecordedLists : \A k \in DOMAIN cl.draws :
          LET d == cl.draws[k]
              ri == mAllRitems[d.ritem]
          IN  /\ ObjectConstantsRead(d) = ObjectConstants(app, ri)
              /\ app = "castle" =>
                    /\ MaterialConstantsRead(d) # Uninit
                    /\ MaterialConstantsRead(d) =
                          RecordAt(mFrameResources[cl.alloc].MaterialCB,
                                   mMaterials[ri.Mat].MatCBIndex)
                    /\ ri.Mat \in StaticMaterials =>
                          MaterialConstantsRead(d) = MaterialConstants(mMaterials[ri.Mat])

\* The castle app has submitted a frame after every dirty-count of an
\* item came down to 0, and the water material's record in the frame's
\* slot differs from the one in another slot.
C26_Witness ==
    /\ app = "castle"
    /\ pc = "Draw_Signal"
    /\ frameCounter > gNumFrameResources
    /\ \A k \in DOMAIN mAllRitems : ItemCount(k) = 0
    /\ \E k \in DOMAIN mCommandList.draws :
          /\ mAllRitems[mCommandList.draws[k].ritem].Mat = "water"
          /\ MaterialConstantsRead(mCommandList.draws[k]) = MaterialConstants(WaterMat)
    /\ \E s \in Slots : ~SlotHoldsWater(s)

\* The ring slots with submitted work the GPU has not finished: stamped,
\* and the fence has not reached the stamp.
BusySlots == {s \in Slots : mFrameResources[s].Fence > mFence}

\* C22: the CPU blocks in Update only when the GPU is the bottleneck.
\* Update enters the wait only with gNumFrameResources frames outstanding,
\* and with fewer it goes on without waiting. While the thread is blocked,
\* every ring slot has submitted work whose fence value is not reached,
\* exactly gNumFrameResources Signals are outstanding, and the slot waited
\* for holds the oldest of these checkpoints, the one the GPU reaches
\* first.
C22_BlocksOnlyWhenGpuIsBottleneck ==
    [][ /\ pc = "Run" /\ pc' = "Update_Wait" =>
              /\ Cardinality(Outstanding) = gNumFrameResources
              /\ BusySlots = Slots
        /\ pc = "Run" /\ pc' # pc /\ Cardinality(Outstanding) < gNumFrameResources =>
              pc' = "Update_CBs"
        /\ Blocked' =>
              /\ BusySlots' = Slots
              /\ Cardinality(Outstanding') = gNumFrameResources
              /\ mCurrentFence' - mFence' = gNumFrameResources
              /\ \A s \in Slots :
                    mFrameResources'[mCurrFrameResourceIndex'].Fence
                        <= mFrameResources'[s].Fence
              /\ mFrameResources'[mCurrFrameResourceIndex'].Fence = mFence' + 1
      ]_vars

\* The thread is blocked a second time round the ring, while the GPU is
\* still executing the oldest of the outstanding frames.
C22_Witness ==
    /\ Blocked
    /\ frameCounter > 2 * gNumFrameResources
    /\ BusySlots = Slots
    /\ Head(mCommandQueue).type = "execute"
    /\ Head(mCommandQueue).list.alloc = mCurrFrameResourceIndex

\* ---------------------------------------------------------------- progress

\* The frame loop with a GPU that finishes every command list it is given
\* and reaches every Signal, and a CPU thread that runs when it can: it
\* starts the next frame, wakes from the wait once the event is set, and
\* goes through Update and Draw. UpdateCBs is enabled exactly at its
\* position and always leaves it, so WF_vars(UpdateCBs) says that the
\* thread is again and again not at that position; it is written that way.
FairSpec ==
    /\ Init
    /\ [][Next]_vars
    /\ WF_vars(GpuExecute)
    /\ WF_vars(GpuSignal)
    /\ WF_vars(UpdateBegin)
    /\ WF_vars(UpdateWait)
    /\ []<>(pc # "Update_CBs")
    /\ WF_vars(DrawExecute)
    /\ WF_vars(DrawSignal)

\* Every frame the bound allows has been submitted and the GPU has
\* finished it.
AllFramesDone ==
    /\ pc = "Run"
    /\ frameCounter = MaxFrames
    /\ mCommandQueue = <<>>
    /\ mFence = mCurrentFence

\* C21: with a GPU that goes on, every wait of Update ends and the frame
\* loop goes on submitting: a thread in the wait gets to the constant
\* update of its frame, and the loop gets through all its frames, each
\* submitted and finished by the GPU. Without GPU
\* progress the thread stays blocked: as long as the fence does not move,
\* a blocked thread is still blocked in the next state, with nothing of
\* the CPU's state changed; the wait has no other way out.
C21_WaitsEndWhenGpuProgresses ==
    /\ (pc = "Update_Wait") ~> (pc = "Update_CBs")
    /\ <>[]AllFramesDone
    /\ [][Blocked /\ mFence' = mFence => Blocked' /\ UNCHANGED cpuVars]_vars

\* A wait has ended in the last frame of the run: the thread, which had
\* to wait for the slot, is in the constant update.
C21_Witness ==
    /\ pc = "Update_CBs"
    /\ waited
    /\ frameCounter = MaxFrames
    /\ mFence >= mCurrFrameResource.Fence
    /\ mCurrFrameResource.Fence # 0

====
